---- MODULE Spec2Model ----
(***************************************************************************)
(* A model of the BotCity Maestro SDK client: the DataPoolEntry state      *)
(* machine (botcity/maestro/datapool/entry.py), the DataPool protocol      *)
(* (botcity/maestro/datapool/datapool.py) and the version / token gates    *)
(* of BotMaestroSDK (botcity/maestro/sdk.py).                              *)
(*                                                                         *)
(* Python values are represented as follows.  None in a string-typed field *)
(* is NULL.  A task id may be an int, a str or None, so task ids are       *)
(* tagged records (TInt, TStr, TNone) and str() is PyStr.  A JSON body is  *)
(* a record of the keys update_from_json reads, with json = FALSE for a    *)
(* body json.loads rejects.  A version string "X.Y.Z" is the tuple         *)
(* <<X, Y, Z>> of its release numbers.                                     *)
(***************************************************************************)
EXTENDS Integers, Sequences, FiniteSets, TLC

VARIABLES
    sdk,      \* the BotMaestroSDK session object
    pool,     \* the DataPool object of the caller
    entry,    \* the DataPoolEntry object the caller holds
    last,     \* the last completed call: what was asked, sent, raised, returned
    srv,      \* the server's entry store (specification SpecServer)
    flight,   \* the pull responses in flight, per worker (SpecServer)
    held,     \* the entry object each worker holds (SpecServer)
    hist      \* history: what was pushed, claimed, returned and reported

vars == <<sdk, pool, entry, last, srv, flight, held, hist>>

-----------------------------------------------------------------------------
(* Python values *)

NULL == "None"

TNone == [t |-> "none"]
TInt(n) == [t |-> "int", i |-> n]
TStr(s) == [t |-> "str", s |-> s]

\* the task id stamped as given, str() forgotten
PyStr_forgotten(x) == x

\* str(x) for a task id
PyStr(x) ==
    CASE x.t = "str" -> x
      [] x.t = "int" -> TStr(ToString(x.i))
      [] x.t = "none" -> TStr("None")

\* StateEnum
PENDING == "PENDING"
PROCESSING == "PROCESSING"
DONE == "DONE"
ERROR == "ERROR"
TIMEOUT == "TIMEOUT"
StateEnum == {PENDING, PROCESSING, DONE, ERROR, TIMEOUT}

-----------------------------------------------------------------------------
(* Bounds and input sets *)

MaxPriority == 1
Priorities == {5 * p : p \in 0..MaxPriority}
Payloads == {[k |-> "v"], [k |-> "w"]}
EmptyDict == [k |-> NULL]
PoolLabel == "p"
CallerTaskIds == {TStr("42"), TInt(123), TNone}
AssignableStates == StateEnum \cup {NULL}

\* HTTP statuses a reply may carry
Statuses == {200, 204, 302, 404, 500}

-----------------------------------------------------------------------------
(* requests.Response *)

\* Response.ok: raise_for_status raises for 400 <= status < 600
Ok(status) == ~(400 <= status /\ status < 600)

\* an entry as the server writes it (the read shape of the entry resource)
Body(id, st, vals, tid, prio, parent, child) ==
    [json |-> TRUE, id |-> id, dataPoolLabel |-> PoolLabel, state |-> st,
     values |-> vals, taskId |-> tid, priority |-> prio,
     parent |-> parent, child |-> child,
     dateRegister |-> "d0",
     dateProcessing |-> IF st \in {NULL, PENDING} THEN NULL ELSE "d1",
     dateFinished |-> IF st \in {DONE, ERROR} THEN "d2" ELSE NULL]

\* a body that is no JSON document (empty, or an error page)
NoBody ==
    [json |-> FALSE, id |-> NULL, dataPoolLabel |-> NULL, state |-> NULL,
     values |-> EmptyDict, taskId |-> TNone, priority |-> 0,
     parent |-> NULL, child |-> NULL,
     dateRegister |-> NULL, dateProcessing |-> NULL, dateFinished |-> NULL]

\* The entries a reply may carry: each of two server entries in any state.
\* The two differ in every field a reply sets, so that a field left
\* unread or misread by the client shows.
Bodies ==
    {Body("e1", st, [k |-> "v"], TNone, 0, NULL, "e2") : st \in AssignableStates}
    \cup {Body("e2", st, [k |-> "w"], TStr("42"), 5 * MaxPriority, "e1", NULL) : st \in AssignableStates}

\* what a request may end in: a transport failure or an HTTP reply
Responses ==
    {[kind |-> k, status |-> 0, body |-> NoBody] : k \in {"Timeout", "ConnectionError"}}
    \cup {[kind |-> "http", status |-> s, body |-> NoBody] : s \in Statuses}
    \cup {[kind |-> "http", status |-> s, body |-> b] :
            s \in {x \in Statuses : Ok(x) /\ x # 204}, b \in Bodies}

-----------------------------------------------------------------------------
(* DataPoolEntry *)

\* DataPoolEntry(priority=p, values=v): the dataclass defaults for the rest
NewDataPoolEntry(p, v) ==
    [priority |-> p, values |-> v, datapool_label |-> NULL, state |-> NULL,
     entry_id |-> NULL, task_id |-> TNone, parent |-> NULL, child |-> NULL,
     date_register |-> NULL, date_processing |-> NULL, date_finished |-> NULL,
     maestro |-> NULL]

\* to_json: the push payload
to_json(e) == [priority |-> e.priority, values |-> e.values]

\* json_to_update that leaves the state out of the payload
json_to_update_without_state(e) ==
    [priority |-> e.priority, values |-> e.values,
     dataPoolLabel |-> e.datapool_label, state |-> NULL,
     taskId |-> e.task_id, parent |-> e.parent, child |-> e.child]

\* json_to_update: the update payload
json_to_update(e) ==
    [priority |-> e.priority, values |-> e.values,
     dataPoolLabel |-> e.datapool_label, state |-> e.state,
     taskId |-> e.task_id, parent |-> e.parent, child |-> e.child]

\* a request without data (a GET)
NoData == <<>>

\* _verify_state that takes an entry without a state for a PENDING one
_verify_state_unset_as_pending(cur, new) ==
    /\ (cur \in {NULL, PENDING} => new \in {PROCESSING})
    /\ (cur = PROCESSING => new \in {TIMEOUT, DONE, ERROR})
    /\ (cur = TIMEOUT => new \in {DONE, ERROR})

\* _verify_state without its TIMEOUT row
_verify_state_no_timeout_row(cur, new) ==
    IF cur = NULL THEN TRUE
    ELSE /\ (cur = PENDING => new \in {PROCESSING})
         /\ (cur = PROCESSING => new \in {TIMEOUT, DONE, ERROR})

\* _verify_state: TRUE when it returns, FALSE when it raises ValueError
_verify_state(cur, new) ==
    IF cur = NULL THEN TRUE
    ELSE /\ (cur = PENDING => new \in {PROCESSING})
         /\ (cur = PROCESSING => new \in {TIMEOUT, DONE, ERROR})
         /\ (cur = TIMEOUT => new \in {DONE, ERROR})

\* __setattr__('state', s): the check, then the write
setattr_state(e, s) ==
    IF _verify_state(e.state, s)
    THEN [entry |-> [e EXCEPT !.state = s], raised |-> NULL]
    ELSE [entry |-> e, raised |-> "ValueError"]

\* update_from_json reading the task id under the attribute's name, a key
\* the reply does not have
update_from_json_task_id_key(e, body) ==
    IF ~body.json THEN [entry |-> e, raised |-> "JSONDecodeError"]
    ELSE LET e1 == [e EXCEPT !.entry_id = body.id,
                             !.datapool_label = body.dataPoolLabel]
             r == setattr_state(e1, body.state)
         IN IF r.raised # NULL THEN r
            ELSE [entry |-> [r.entry EXCEPT
                                !.values = body.values,
                                !.task_id = TNone,
                                !.priority = body.priority,
                                !.parent = body.parent,
                                !.child = body.child,
                                !.date_register = body.dateRegister,
                                !.date_processing = body.dateProcessing,
                                !.date_finished = body.dateFinished],
                  raised |-> NULL]

\* update_from_json reading the id under a key the reply does not have
update_from_json_wrong_id_key(e, body) ==
    IF ~body.json THEN [entry |-> e, raised |-> "JSONDecodeError"]
    ELSE LET e1 == [e EXCEPT !.entry_id = NULL,
                             !.datapool_label = body.dataPoolLabel]
             r == setattr_state(e1, body.state)
         IN IF r.raised # NULL THEN r
            ELSE [entry |-> [r.entry EXCEPT
                                !.values = body.values,
                                !.task_id = body.taskId,
                                !.priority = body.priority,
                                !.parent = body.parent,
                                !.child = body.child,
                                !.date_register = body.dateRegister,
                                !.date_processing = body.dateProcessing,
                                !.date_finished = body.dateFinished],
                  raised |-> NULL]

\* update_from_json: the assignments in the order of the code, so that a
\* rejected state leaves entry_id and datapool_label already overwritten
update_from_json(e, body) ==
    IF ~body.json THEN [entry |-> e, raised |-> "JSONDecodeError"]
    ELSE LET e1 == [e EXCEPT !.entry_id = body.id,
                             !.datapool_label = body.dataPoolLabel]
             r == setattr_state(e1, body.state)
         IN IF r.raised # NULL THEN r
            ELSE [entry |-> [r.entry EXCEPT
                                !.values = body.values,
                                !.task_id = body.taskId,
                                !.priority = body.priority,
                                !.parent = body.parent,
                                !.child = body.child,
                                !.date_register = body.dateRegister,
                                !.date_processing = body.dateProcessing,
                                !.date_finished = body.dateFinished],
                  raised |-> NULL]

\* The outcome of a call: the entry object afterwards, the exception raised
\* (NULL: none), the number of HTTP requests issued, the data sent, and what
\* is returned ("self": the object it was called with or on, "new": an
\* object built by the call, "None", or "raise").
Outcome(e, raised, sent, data, ret) ==
    [entry |-> e, raised |-> raised, sent |-> sent, data |-> data, ret |-> ret]

\* save
save(e, resp) ==
    IF e.maestro = NULL
    THEN Outcome(e, "AttributeError", 0, json_to_update(e), "raise")
    ELSE LET data == json_to_update(e) IN
         IF resp.kind # "http" THEN Outcome(e, resp.kind, 1, data, "raise")
         ELSE IF Ok(resp.status)
         THEN LET r1 == update_from_json(e, resp.body) IN
              IF r1.raised # NULL
              THEN Outcome(r1.entry, r1.raised, 1, data, "raise")
              ELSE LET r2 == update_from_json(r1.entry, resp.body) IN
                   IF r2.raised # NULL
                   THEN Outcome(r2.entry, r2.raised, 1, data, "raise")
                   ELSE Outcome(r2.entry, NULL, 1, data, "self")
         ELSE Outcome(e, "HTTPError", 1, data, "raise")

\* _report that puts the state back when save raises
_report_rolls_back(e, state, resp) ==
    LET r == setattr_state(e, state) IN
    IF r.raised # NULL
    THEN Outcome(e, r.raised, 0, json_to_update(e), "raise")
    ELSE LET s == save(r.entry, resp) IN
         IF s.raised = NULL THEN [s EXCEPT !.ret = "None"]
         ELSE [s EXCEPT !.ret = "raise", !.entry = e]

\* _report: the state assignment, then save
_report(e, state, resp) ==
    LET r == setattr_state(e, state) IN
    IF r.raised # NULL
    THEN Outcome(e, r.raised, 0, json_to_update(e), "raise")
    ELSE LET s == save(r.entry, resp) IN
         [s EXCEPT !.ret = IF s.raised = NULL THEN "None" ELSE "raise"]

report_done(e, resp) == _report(e, DONE, resp)
report_error(e, resp) == _report(e, ERROR, resp)

-----------------------------------------------------------------------------
(* DataPool *)

\* create_entry
create_entry(p, e, resp) ==
    IF p.maestro = NULL
    THEN Outcome(e, "AttributeError", 0, to_json(e), "raise")
    ELSE LET data == to_json(e) IN
         IF resp.kind # "http" THEN Outcome(e, resp.kind, 1, data, "raise")
         ELSE IF Ok(resp.status)
         THEN LET r == update_from_json(e, resp.body) IN
              IF r.raised # NULL
              THEN Outcome(r.entry, r.raised, 1, data, "raise")
              ELSE Outcome(r.entry, NULL, 1, data, "self")
         ELSE Outcome(e, "HTTPError", 1, data, "raise")

\* get_entry: e is the object the caller holds, untouched unless the call
\* returns a new one
get_entry(p, e, resp) ==
    IF p.maestro = NULL
    THEN Outcome(e, "AttributeError", 0, NoData, "raise")
    ELSE IF resp.kind # "http" THEN Outcome(e, resp.kind, 1, NoData, "raise")
    ELSE IF Ok(resp.status)
    THEN LET r == update_from_json(NewDataPoolEntry(0, EmptyDict), resp.body) IN
         IF r.raised # NULL
         THEN Outcome(e, r.raised, 1, NoData, "raise")
         ELSE Outcome([r.entry EXCEPT !.maestro = p.maestro], NULL, 1, NoData, "new")
    ELSE Outcome(e, "HTTPError", 1, NoData, "raise")

\* next without its test for 204: the empty reply goes to update_from_json
next_without_204(p, e, task_id, resp) ==
    IF p.maestro = NULL
    THEN Outcome(e, "AttributeError", 0, NoData, "raise")
    ELSE IF resp.kind # "http" THEN Outcome(e, resp.kind, 1, NoData, "raise")
    ELSE IF Ok(resp.status)
    THEN LET r == update_from_json(NewDataPoolEntry(0, EmptyDict), resp.body) IN
         IF r.raised # NULL
         THEN Outcome(e, r.raised, 1, NoData, "raise")
         ELSE Outcome([r.entry EXCEPT !.task_id = PyStr(task_id),
                                      !.maestro = p.maestro],
                      NULL, 1, NoData, "new")
    ELSE Outcome(e, "HTTPError", 1, NoData, "raise")

\* next with raise_for_status() forgotten: the method falls off its end
next_no_raise_for_status(p, e, task_id, resp) ==
    IF p.maestro = NULL
    THEN Outcome(e, "AttributeError", 0, NoData, "raise")
    ELSE IF resp.kind # "http" THEN Outcome(e, resp.kind, 1, NoData, "raise")
    ELSE IF resp.status = 204 THEN Outcome(e, NULL, 1, NoData, "None")
    ELSE IF Ok(resp.status)
    THEN LET r == update_from_json(NewDataPoolEntry(0, EmptyDict), resp.body) IN
         IF r.raised # NULL
         THEN Outcome(e, r.raised, 1, NoData, "raise")
         ELSE Outcome([r.entry EXCEPT !.task_id = PyStr(task_id),
                                      !.maestro = p.maestro],
                      NULL, 1, NoData, "new")
    ELSE Outcome(e, NULL, 1, NoData, "None")

\* next
next(p, e, task_id, resp) ==
    IF p.maestro = NULL
    THEN Outcome(e, "AttributeError", 0, NoData, "raise")
    ELSE IF resp.kind # "http" THEN Outcome(e, resp.kind, 1, NoData, "raise")
    ELSE IF resp.status = 204 THEN Outcome(e, NULL, 1, NoData, "None")
    ELSE IF Ok(resp.status)
    THEN LET r == update_from_json(NewDataPoolEntry(0, EmptyDict), resp.body) IN
         IF r.raised # NULL
         THEN Outcome(e, r.raised, 1, NoData, "raise")
         ELSE Outcome([r.entry EXCEPT !.task_id = PyStr(task_id),
                                      !.maestro = p.maestro],
                      NULL, 1, NoData, "new")
    ELSE Outcome(e, "HTTPError", 1, NoData, "raise")

-----------------------------------------------------------------------------
(* The caller's steps against a server that may answer anything *)

Done(op, arg, resp, out) ==
    [op |-> op, arg |-> arg, kind |-> resp.kind, status |-> resp.status,
     body |-> resp.body,
     raised |-> out.raised, sent |-> out.sent,
     keys |-> IF out.sent = 0 THEN {} ELSE DOMAIN out.data, ret |-> out.ret]

NoResp == [kind |-> "none", status |-> 0, body |-> NoBody]

\* a session that is logged in to a portal of version 3.0.2
Session ==
    [server |-> "srv", login |-> "org", key |-> "key", access_token |-> "tok",
     version |-> <<3, 0, 2>>, RAISE_NOT_CONNECTED |-> TRUE,
     MOCK_OBJECT_WHEN_DISCONNECTED |-> FALSE, notified_disconnect |-> FALSE]

Construct ==
    \E p \in Priorities, v \in Payloads :
        /\ entry' = NewDataPoolEntry(p, v)
        /\ last' = Done("new", TNone, NoResp, Outcome(entry', NULL, 0, NoData, "new"))
        /\ UNCHANGED <<sdk, pool, srv, flight, held, hist>>

SetState ==
    \E s \in AssignableStates :
        LET r == setattr_state(entry, s) IN
        /\ entry' = r.entry
        /\ last' = Done("set_state", TStr(s), NoResp,
                        Outcome(r.entry, r.raised, 0, NoData,
                                IF r.raised = NULL THEN "None" ELSE "raise"))
        /\ UNCHANGED <<sdk, pool, srv, flight, held, hist>>

Save ==
    \E resp \in Responses :
        LET out == save(entry, resp) IN
        /\ entry' = out.entry
        /\ last' = Done("save", TNone, IF out.sent = 0 THEN NoResp ELSE resp, out)
        /\ UNCHANGED <<sdk, pool, srv, flight, held, hist>>

ReportDone ==
    \E resp \in Responses :
        LET out == report_done(entry, resp) IN
        /\ entry' = out.entry
        /\ last' = Done("report_done", TNone, IF out.sent = 0 THEN NoResp ELSE resp, out)
        /\ UNCHANGED <<sdk, pool, srv, flight, held, hist>>

ReportError ==
    \E resp \in Responses :
        LET out == report_error(entry, resp) IN
        /\ entry' = out.entry
        /\ last' = Done("report_error", TNone, IF out.sent = 0 THEN NoResp ELSE resp, out)
        /\ UNCHANGED <<sdk, pool, srv, flight, held, hist>>

CreateEntry ==
    \E resp \in Responses :
        LET out == create_entry(pool, entry, resp) IN
        /\ entry' = out.entry
        /\ last' = Done("create_entry", TNone, IF out.sent = 0 THEN NoResp ELSE resp, out)
        /\ UNCHANGED <<sdk, pool, srv, flight, held, hist>>

GetEntry ==
    \E resp \in Responses :
        LET out == get_entry(pool, entry, resp)
            id == IF resp.body.json THEN resp.body.id ELSE "e1" IN
        /\ entry' = out.entry
        /\ last' = Done("get_entry", TStr(id), IF out.sent = 0 THEN NoResp ELSE resp, out)
        /\ UNCHANGED <<sdk, pool, srv, flight, held, hist>>

NextEntry ==
    \E t \in CallerTaskIds, resp \in Responses :
        LET out == next(pool, entry, t, resp) IN
        /\ entry' = out.entry
        /\ last' = Done("next", t, IF out.sent = 0 THEN NoResp ELSE resp, out)
        /\ UNCHANGED <<sdk, pool, srv, flight, held, hist>>

Init ==
    /\ sdk = Session
    /\ pool \in {[label |-> PoolLabel, maestro |-> m] : m \in {NULL, "sdk"}}
    /\ \E p \in Priorities, v \in Payloads : entry = NewDataPoolEntry(p, v)
    /\ last = Done("new", TNone, NoResp, Outcome(entry, NULL, 0, NoData, "new"))
    /\ srv = <<>>
    /\ flight = <<>>
    /\ held = <<>>
    /\ hist = <<>>

Next ==
    \/ Construct
    \/ SetState
    \/ Save
    \/ ReportDone
    \/ ReportError
    \/ CreateEntry
    \/ GetEntry
    \/ NextEntry

Spec == Init /\ [][Next]_vars

-----------------------------------------------------------------------------
(* Workers against a server that keeps the entries: it assigns PENDING on  *)
(* push, claims a PENDING entry atomically on pull, and stores what is     *)
(* saved.  A pull is two steps, the server's and the worker's, so that the *)
(* calls of the workers overlap.                                           *)

MaxEntries == 2
NWorkers == 2
Workers == 1..NWorkers

\* the task each worker runs under
TaskOf(w) == IF w = 1 THEN TStr("42") ELSE TInt(121 + w)

\* a worker that has claimed nothing yet holds an entry of its own making
Unclaimed == NewDataPoolEntry(0, EmptyDict)

ServerId(i) == "s" \o ToString(i)

ServerBody(i, rec) ==
    Body(ServerId(i), rec.state, rec.values, rec.taskId, rec.priority, NULL, NULL)

Reply(status, body) == [kind |-> "http", status |-> status, body |-> body]

\* a request that is lost: what the client sends does not depend on the reply
Lost == [kind |-> "Timeout", status |-> 0, body |-> NoBody]

\* POST .../push: the entry is stored PENDING under the next id
ServerPush(store, data) ==
    Append(store, [state |-> PENDING, values |-> data.values,
                   priority |-> data.priority, taskId |-> TNone])

\* POST .../entry/{id}: the server stores what is saved
ServerSave(store, i, data) ==
    [store EXCEPT ![i] = [state |-> data.state, values |-> data.values,
                          priority |-> data.priority, taskId |-> data.taskId]]

\* the last call of a producer or reader: it says what entry holds
SDone(op, id, out) ==
    [op |-> op, id |-> id, raised |-> out.raised, sent |-> out.sent, ret |-> out.ret]

\* the calls of the workers that raised
Raised(w, op, out) ==
    IF out.raised = NULL THEN {} ELSE {[w |-> w, op |-> op, raised |-> out.raised]}

\* what the producers push
PushInputs ==
    {[priority |-> 5, values |-> [k |-> "v"]], [priority |-> 0, values |-> [k |-> "w"]]}

\* a producer builds an entry and pushes it
Push ==
    \E in \in PushInputs :
        LET e == NewDataPoolEntry(in.priority, in.values)
            data == create_entry(pool, e, Lost).data
            store == ServerPush(srv, data)
            i == Len(store)
            out == create_entry(pool, e, Reply(200, ServerBody(i, store[i])))
        IN /\ Len(srv) < MaxEntries
           /\ srv' = store
           /\ entry' = out.entry
           /\ last' = SDone("create_entry", ServerId(i), out)
           /\ hist' = [hist EXCEPT !.pushed = Append(@, in)]
           /\ UNCHANGED <<sdk, pool, flight, held>>

\* GET .../pull reaches the server: it claims a PENDING entry, any of them,
\* in one step, or answers 204
PullSend(w) ==
    /\ flight[w].kind = "none"
    /\ LET pending == {i \in DOMAIN srv : srv[i].state = PENDING} IN
       IF pending = {}
       THEN /\ flight' = [flight EXCEPT ![w] = Reply(204, NoBody)]
            /\ srv' = srv
            /\ hist' = [hist EXCEPT !.overlap = @ \/ \E o \in Workers : flight[o].kind # "none"]
       ELSE \E i \in pending :
            /\ srv' = [srv EXCEPT ![i].state = PROCESSING]
            /\ flight' = [flight EXCEPT ![w] = Reply(200, ServerBody(i, srv'[i]))]
            /\ hist' = [hist EXCEPT
                          !.picked = @ \cup {[w |-> w, id |-> ServerId(i), was |-> srv[i].state]},
                          !.overlap = @ \/ \E o \in Workers : flight[o].kind # "none"]
    /\ UNCHANGED <<sdk, pool, entry, last, held>>

\* the reply reaches the worker: next() returns
PullRecv(w) ==
    /\ flight[w].kind # "none"
    /\ LET out == next(pool, held[w], TaskOf(w), flight[w]) IN
       /\ held' = [held EXCEPT ![w] = out.entry]
       /\ hist' = [hist EXCEPT
                     !.returns = IF out.ret = "new"
                                 THEN @ \cup {[w |-> w, id |-> out.entry.entry_id]}
                                 ELSE @,
                     !.raised = @ \cup Raised(w, "next", out)]
    /\ flight' = [flight EXCEPT ![w] = NoResp]
    /\ UNCHANGED <<sdk, pool, entry, last, srv>>

\* a worker reports the entry it is processing
Report(w) ==
    \E st \in {DONE, ERROR} :
        LET e == held[w]
            sent == _report(e, st, Lost)
            known == {i \in DOMAIN srv : ServerId(i) = e.entry_id}
            store == IF sent.sent = 0 \/ known = {} THEN srv
                     ELSE ServerSave(srv, CHOOSE i \in known : TRUE, sent.data)
            resp == IF known = {} THEN Reply(404, NoBody)
                    ELSE LET i == CHOOSE i \in known : TRUE
                         IN Reply(200, ServerBody(i, store[i]))
            out == _report(e, st, resp)
        IN /\ e.state \in {PROCESSING, TIMEOUT}
           /\ srv' = store
           /\ held' = [held EXCEPT ![w] = out.entry]
           /\ hist' = [hist EXCEPT
                         !.reported = IF out.raised = NULL
                                      THEN @ \cup {[id |-> e.entry_id, state |-> st]}
                                      ELSE @,
                         !.raised = @ \cup Raised(w, "report", out)]
           /\ UNCHANGED <<sdk, pool, entry, last, flight>>

\* a reported entry is read by its id
Fetch ==
    \E i \in DOMAIN srv :
        LET out == get_entry(pool, entry, Reply(200, ServerBody(i, srv[i]))) IN
        /\ \E w \in Workers : held[w].entry_id = ServerId(i) /\ held[w].state \in {DONE, ERROR}
        /\ entry' = out.entry
        /\ last' = SDone("get_entry", ServerId(i), out)
        /\ UNCHANGED <<sdk, pool, srv, flight, held, hist>>

InitServer ==
    /\ sdk = Session
    /\ pool = [label |-> PoolLabel, maestro |-> "sdk"]
    /\ entry = Unclaimed
    /\ last = SDone("new", NULL, Outcome(entry, NULL, 0, NoData, "new"))
    /\ srv = <<>>
    /\ flight = [w \in Workers |-> NoResp]
    /\ held = [w \in Workers |-> Unclaimed]
    /\ hist = [pushed |-> <<>>, picked |-> {}, returns |-> {}, reported |-> {},
               raised |-> {}, overlap |-> FALSE]

NextServer ==
    \/ Push
    \/ \E w \in Workers : PullSend(w)
    \/ \E w \in Workers : PullRecv(w)
    \/ \E w \in Workers : Report(w)
    \/ Fetch

SpecServer == InitServer /\ [][NextServer]_vars

-----------------------------------------------------------------------------
(* BotMaestroSDK: login, logoff and the gates in front of the operations *)

MaxVersionPart == 3

\* the version strings a probe may return: "1.0.0", "1.0.1", "1.0.2", "1.1.0",
\* .. "3.1.0" with the bound 3
Versions ==
    {v \in {<<a, b, c>> : a \in 1..MaxVersionPart, b \in 0..1, c \in 0..2} :
        v[2] = 1 => v[3] = 0}

\* version is None
NoVersion == <<>>

\* the access tokens the portal may issue
Tokens == {"tok", "tok2"}

\* operations behind @ensure_access_token() alone: one of each family
\* (alerts, messages, tasks, logs, artifacts)
TokenOps ==
    {"alert", "message", "create_task", "finish_task", "get_task",
     "new_log", "post_artifact"}

\* the version recorded when the probe fails in offline mode: "999.0.0"
AssumeLatest == <<999, 0, 0>>

\* packaging.version: the comparison key of a release drops its trailing zeros
RECURSIVE ReleaseKey(_)
ReleaseKey(v) ==
    IF Len(v) > 0 /\ v[Len(v)] = 0 THEN ReleaseKey(SubSeq(v, 1, Len(v) - 1)) ELSE v

\* tuple comparison: the first difference decides, a proper prefix is less
TupleLess(a, b) ==
    \E i \in 1..Len(b) :
        /\ \A j \in 1..(i - 1) : j <= Len(a) /\ a[j] = b[j]
        /\ (i > Len(a) \/ a[i] < b[i])

\* version.parse(a) <= version.parse(b): the gate with the wrong comparison
VersionLess_or_equal(a, b) ==
    TupleLess(ReleaseKey(a), ReleaseKey(b)) \/ ReleaseKey(a) = ReleaseKey(b)

\* version.parse(a) < version.parse(b)
VersionLess(a, b) == TupleLess(ReleaseKey(a), ReleaseKey(b))

\* the operations behind @since_version, with the version each requires
GatedOps ==
    [interrupt_task |-> <<2, 0, 0>>, error |-> <<2, 0, 0>>,
     get_credential |-> <<2, 0, 0>>, create_credential |-> <<2, 0, 0>>,
     create_datapool |-> <<3, 0, 2>>, get_datapool |-> <<3, 0, 2>>]

\* since_version treating a missing version as the oldest one
since_version_none_unsupported(v, obj) ==
    IF obj.version = NoVersion \/ VersionLess(obj.version, v)
    THEN "version_unsupported" ELSE "pass"

\* since_version(v).wrapper up to the call of the wrapped function:
\* "pass", or the reason of the RuntimeError it raises
since_version(v, obj) ==
    IF obj.version = NoVersion
    THEN IF obj.RAISE_NOT_CONNECTED THEN "version_not_available" ELSE "pass"
    ELSE IF VersionLess(obj.version, v) THEN "version_unsupported" ELSE "pass"

\* ensure_access_token without its check
ensure_access_token_unchecked(invoke, obj) == "pass"

\* ensure_access_token(invoke).wrapper up to the call of the wrapped function:
\* "pass", "no_token" (RuntimeError), or "offline" (warned, the function is
\* not called) / "offline_invoke" (warned, the function is called)
ensure_access_token(invoke, obj) ==
    IF obj.access_token # NULL THEN "pass"
    ELSE IF obj.RAISE_NOT_CONNECTED THEN "no_token"
    ELSE IF invoke THEN "offline_invoke" ELSE "offline"

\* the result of a call: gate is how far the decorators let it go
Called(op, gate, raised, sent, ret) ==
    [op |-> op, gate |-> gate, raised |-> raised, sent |-> sent, ret |-> ret]

\* a version-gated operation: @since_version(v) outside, @ensure_access_token()
\* inside, then the body, which issues its request
GatedCall ==
    \E op \in DOMAIN GatedOps, ok \in BOOLEAN :
        LET g1 == since_version(GatedOps[op], sdk)
            g2 == ensure_access_token(FALSE, sdk)
        IN /\ last' =
                IF g1 # "pass" THEN Called(op, g1, "RuntimeError", 0, "raise")
                ELSE IF g2 = "no_token" THEN Called(op, g2, "RuntimeError", 0, "raise")
                ELSE IF g2 = "offline"
                THEN Called(op, g2, NULL, 0,
                            IF sdk.MOCK_OBJECT_WHEN_DISCONNECTED THEN "mock" ELSE "lambda")
                ELSE IF ok THEN Called(op, "pass", NULL, 1, "value")
                ELSE Called(op, "pass", "HTTPError", 1, "raise")
           /\ sdk' = IF g1 = "pass" /\ g2 = "offline"
                     THEN [sdk EXCEPT !.notified_disconnect = TRUE]
                     ELSE sdk
           /\ UNCHANGED <<pool, entry, srv, flight, held, hist>>

\* an operation behind @ensure_access_token() alone, then its body, which
\* issues its request
TokenCall ==
    \E op \in TokenOps, ok \in BOOLEAN :
        LET g == ensure_access_token(FALSE, sdk)
        IN /\ last' =
                IF g = "no_token" THEN Called(op, g, "RuntimeError", 0, "raise")
                ELSE IF g = "offline"
                THEN Called(op, g, NULL, 0,
                            IF sdk.MOCK_OBJECT_WHEN_DISCONNECTED THEN "mock" ELSE "lambda")
                ELSE IF ok THEN Called(op, "pass", NULL, 1, "value")
                ELSE Called(op, "pass", "HTTPError", 1, "raise")
           /\ sdk' = IF g = "offline"
                     THEN [sdk EXCEPT !.notified_disconnect = TRUE]
                     ELSE sdk
           /\ UNCHANGED <<pool, entry, srv, flight, held, hist>>

\* get_execution, behind @ensure_access_token(invoke=True); tid is the value
\* of "task_id or self.task_id", NULL when neither is set
GetExecution ==
    \E tid \in {NULL, "t"}, ok \in BOOLEAN :
        LET g == ensure_access_token(TRUE, sdk)
        IN /\ last' =
                IF g = "no_token"
                THEN Called("get_execution", g, "RuntimeError", 0, "raise")
                ELSE IF sdk.access_token = NULL /\ ~sdk.RAISE_NOT_CONNECTED
                THEN Called("get_execution", g, NULL, 0, "default")
                ELSE IF tid = NULL
                THEN Called("get_execution", g, "ValueError", 0, "raise")
                ELSE IF ok THEN Called("get_execution", g, NULL, 1, "value")
                ELSE Called("get_execution", g, "HTTPError", 1, "raise")
           /\ sdk' = IF g = "offline_invoke"
                     THEN [sdk EXCEPT !.notified_disconnect = TRUE]
                     ELSE sdk
           /\ UNCHANGED <<pool, entry, srv, flight, held, hist>>

\* _define_implementation recording the oldest version when the probe fails
_define_implementation_legacy_fallback(obj, probe) ==
    IF probe # NoVersion THEN [raised |-> NULL, sdk |-> [obj EXCEPT !.version = probe]]
    ELSE [raised |-> NULL, sdk |-> [obj EXCEPT !.version = <<1, 0, 0>>]]

\* _define_implementation probing only while no version is known
_define_implementation_probe_once(obj, probe) ==
    IF obj.version # NoVersion THEN [raised |-> NULL, sdk |-> obj]
    ELSE IF probe # NoVersion THEN [raised |-> NULL, sdk |-> [obj EXCEPT !.version = probe]]
    ELSE IF obj.RAISE_NOT_CONNECTED THEN [raised |-> "ProbeError", sdk |-> obj]
    ELSE [raised |-> NULL, sdk |-> [obj EXCEPT !.version = AssumeLatest]]

\* _define_implementation: the probe, NoVersion standing for a probe that
\* raises (unreachable, a failure status, or a body without a version)
_define_implementation(obj, probe) ==
    IF probe # NoVersion THEN [raised |-> NULL, sdk |-> [obj EXCEPT !.version = probe]]
    ELSE IF obj.RAISE_NOT_CONNECTED THEN [raised |-> "ProbeError", sdk |-> obj]
    ELSE [raised |-> NULL, sdk |-> [obj EXCEPT !.version = AssumeLatest]]

\* what the portal answered to the latest login that reached it: the probe's
\* version (NoVersion: the probe failed), the token issued (NULL: none), and
\* whether the probe answered a version other than the one known before
Probed(probe, token) ==
    [probed |-> TRUE, probe |-> probe, token |-> token,
     changed |-> sdk.version # NoVersion /\ probe # NoVersion /\ probe # sdk.version]

\* x or y
PyOr(x, y) == IF x # NULL THEN x ELSE y

\* logoff
logoff(obj) == [obj EXCEPT !.access_token = NULL]

\* the result of login: the session afterwards, the exception raised (NULL:
\* none), the requests issued and what is returned
LoggedIn(obj, raised, sent, ret) ==
    [sdk |-> obj, raised |-> raised, sent |-> sent, ret |-> ret]

\* login that revokes the token before it looks at its arguments
login_logoff_first(obj, server, org, key, probe, token) ==
    LET s1 == logoff([obj EXCEPT !.server = PyOr(server, @),
                                 !.login = PyOr(org, @),
                                 !.key = PyOr(key, @)])
        d == _define_implementation(s1, probe)
    IN IF s1.server = NULL \/ s1.login = NULL \/ s1.key = NULL
       THEN LoggedIn(s1, "ValueError", 0, "raise")
       ELSE IF d.raised # NULL THEN LoggedIn(d.sdk, d.raised, 1, "raise")
       ELSE IF token = NULL THEN LoggedIn(d.sdk, "ValueError", 2, "raise")
       ELSE LoggedIn([d.sdk EXCEPT !.access_token = token], NULL, 2, "None")

\* login that keeps the token it holds until a new one is issued
login_without_logoff(obj, server, org, key, probe, token) ==
    LET s1 == [obj EXCEPT !.server = PyOr(server, @),
                          !.login = PyOr(org, @),
                          !.key = PyOr(key, @)]
        d == _define_implementation(s1, probe)
    IN IF s1.server = NULL \/ s1.login = NULL \/ s1.key = NULL
       THEN LoggedIn(s1, "ValueError", 0, "raise")
       ELSE IF d.raised # NULL THEN LoggedIn(d.sdk, d.raised, 1, "raise")
       ELSE IF token = NULL THEN LoggedIn(d.sdk, "ValueError", 2, "raise")
       ELSE LoggedIn([d.sdk EXCEPT !.access_token = token], NULL, 2, "None")

\* login(server, login, key): the arguments override the configuration, the
\* three are checked, the token is revoked, the version is probed and the
\* token requested; token = NULL stands for a login the portal refuses
login(obj, server, org, key, probe, token) ==
    LET s1 == [obj EXCEPT !.server = PyOr(server, @),
                          !.login = PyOr(org, @),
                          !.key = PyOr(key, @)]
        s2 == logoff(s1)
        d == _define_implementation(s2, probe)
    IN IF s1.server = NULL \/ s1.login = NULL \/ s1.key = NULL
       THEN LoggedIn(s1, "ValueError", 0, "raise")
       ELSE IF d.raised # NULL THEN LoggedIn(d.sdk, d.raised, 1, "raise")
       ELSE IF token = NULL THEN LoggedIn(d.sdk, "ValueError", 2, "raise")
       ELSE LoggedIn([d.sdk EXCEPT !.access_token = token], NULL, 2, "None")

\* login; had records whether the session held a token when it was called
Login ==
    \E server \in {NULL, "srv"}, org \in {NULL, "org"}, key \in {NULL, "key"},
       probe \in Versions \cup {NoVersion}, token \in Tokens \cup {NULL} :
        LET r == login(sdk, server, org, key, probe, token) IN
        /\ sdk' = r.sdk
        /\ last' = [op |-> "login", gate |-> "pass", raised |-> r.raised,
                    sent |-> r.sent, ret |-> r.ret,
                    had |-> sdk.access_token # NULL]
        /\ hist' = IF r.sent = 0 THEN hist
                   ELSE Probed(probe, IF r.raised = NULL THEN token ELSE NULL)
        /\ UNCHANGED <<pool, entry, srv, flight, held>>

\* logoff
Logoff ==
    /\ sdk' = logoff(sdk)
    /\ last' = Called("logoff", "pass", NULL, 0, "None")
    /\ UNCHANGED <<pool, entry, srv, flight, held, hist>>

\* the organization setter: sdk.organization = value
SetOrganization ==
    \E org \in {NULL, "org"} :
        /\ sdk' = [sdk EXCEPT !.login = org]
        /\ last' = Called("organization", "pass", NULL, 0, "None")
        /\ UNCHANGED <<pool, entry, srv, flight, held, hist>>

\* BotMaestroSDK(server, login, key), with the class attributes as configured
InitGate ==
    /\ \E server \in {NULL, "srv"}, org \in {NULL, "org"}, key \in {NULL, "key"},
          rnc \in BOOLEAN, mock \in BOOLEAN :
          sdk = [server |-> server, login |-> org, key |-> key,
                 access_token |-> NULL, version |-> NoVersion,
                 RAISE_NOT_CONNECTED |-> rnc,
                 MOCK_OBJECT_WHEN_DISCONNECTED |-> mock,
                 notified_disconnect |-> FALSE]
    /\ last = Called("init", "pass", NULL, 0, "None")
    /\ pool = [label |-> PoolLabel, maestro |-> NULL]
    /\ entry = NewDataPoolEntry(0, EmptyDict)
    /\ srv = <<>>
    /\ flight = <<>>
    /\ held = <<>>
    /\ hist = [probed |-> FALSE, probe |-> NoVersion, token |-> NULL, changed |-> FALSE]

NextGate ==
    \/ Login
    \/ Logoff
    \/ GatedCall
    \/ TokenCall
    \/ GetExecution

SpecGate == InitGate /\ [][NextGate]_vars

\* login, logoff and the configuration of the session alone
NextLogin ==
    \/ Login
    \/ Logoff
    \/ SetOrganization

SpecLogin == InitGate /\ [][NextLogin]_vars

-----------------------------------------------------------------------------
(* DataPool: the pool object and the portal's copy of its configuration *)

MaxPending == 1

\* ConsumptionPolicyEnum.FIFO, TriggerEnum.NEVER
FIFO == "FIFO"
NEVER == "NEVER"

\* the activity label of the test automation
ActivityLabel == "TestCI"

\* str(bool), so that every return value is a string
PyBool(b) == IF b THEN "True" ELSE "False"

\* DataPool(label=..., default_automation=..., auto_retry=..., maestro=...)
NewDataPool(label, default_automation, auto_retry, maestro) ==
    [label |-> label, default_automation |-> default_automation,
     consumption_policy |-> FIFO, trigger |-> NEVER, schema |-> NULL,
     auto_retry |-> auto_retry, max_auto_retry |-> 0, abort_on_error |-> TRUE,
     max_errors_before_inactive |-> 0, item_max_processing_time |-> 0,
     datapool_id |-> NULL, maestro |-> maestro, active |-> TRUE]

\* to_dict
to_dict(p) ==
    [label |-> p.label, defaultAutomation |-> p.default_automation,
     consumptionPolicy |-> p.consumption_policy, schema |-> p.schema,
     trigger |-> p.trigger, autoRetry |-> p.auto_retry,
     maxAutoRetry |-> p.max_auto_retry, abortOnError |-> p.abort_on_error,
     maxErrorsBeforeInactive |-> p.max_errors_before_inactive,
     itemMaxProcessingTime |-> p.item_max_processing_time,
     active |-> p.active]

\* from_json: the constructor call names every field but active
from_json(body, maestro) ==
    [label |-> body.label, default_automation |-> body.defaultActivity,
     consumption_policy |-> body.consumptionPolicy, trigger |-> body.trigger,
     schema |-> body.schema, auto_retry |-> body.autoRetry,
     max_auto_retry |-> body.maxAutoRetry, abort_on_error |-> body.abortOnError,
     max_errors_before_inactive |-> body.maxErrorsBeforeInactive,
     item_max_processing_time |-> body.itemMaxProcessingTime,
     datapool_id |-> body.id, maestro |-> maestro, active |-> TRUE]

\* _update_from_json that forgets the active flag, as from_json does
_update_from_json_without_active(p, body) ==
    [p EXCEPT !.datapool_id = body.id, !.label = body.label,
              !.default_automation = body.defaultActivity,
              !.consumption_policy = body.consumptionPolicy,
              !.schema = body.schema, !.trigger = body.trigger,
              !.auto_retry = body.autoRetry, !.max_auto_retry = body.maxAutoRetry,
              !.item_max_processing_time = body.itemMaxProcessingTime,
              !.max_errors_before_inactive = body.maxErrorsBeforeInactive,
              !.abort_on_error = body.abortOnError]

\* _update_from_json
_update_from_json(p, body) ==
    [p EXCEPT !.datapool_id = body.id, !.label = body.label,
              !.default_automation = body.defaultActivity,
              !.consumption_policy = body.consumptionPolicy,
              !.schema = body.schema, !.trigger = body.trigger,
              !.auto_retry = body.autoRetry, !.max_auto_retry = body.maxAutoRetry,
              !.item_max_processing_time = body.itemMaxProcessingTime,
              !.max_errors_before_inactive = body.maxErrorsBeforeInactive,
              !.abort_on_error = body.abortOnError,
              !.active = body.active]

\* the outcome of a call on a pool: the pool afterwards, the exception, the
\* number of requests issued, and what is returned
POut(p, raised, sent, ret) ==
    [pool |-> p, raised |-> raised, sent |-> sent, ret |-> ret]

\* the common shape of activate, deactivate and is_active: the request, then
\* on an ok reply _update_from_json and the return value
Refresh(p, resp, returns_active) ==
    IF p.maestro = NULL THEN POut(p, "AttributeError", 0, "raise")
    ELSE IF resp.kind # "http" THEN POut(p, resp.kind, 1, "raise")
    ELSE IF ~Ok(resp.status) THEN POut(p, "HTTPError", 1, "raise")
    ELSE IF ~resp.body.json THEN POut(p, "JSONDecodeError", 1, "raise")
    ELSE LET q == _update_from_json(p, resp.body) IN
         POut(q, NULL, 1, IF returns_active THEN PyBool(q.active) ELSE "True")

\* what activate and deactivate send
activate_data(p) == [to_dict(p) EXCEPT !.active = TRUE]
deactivate_data(p) == [to_dict(p) EXCEPT !.active = FALSE]

activate(p, resp) == Refresh(p, resp, FALSE)
deactivate(p, resp) == Refresh(p, resp, FALSE)
is_active(p, resp) == Refresh(p, resp, TRUE)

\* summary passing its reply to _update_from_json as the reads of the pool
\* do: the counters carry none of the pool's keys, so the fields read None
summary_refreshing_pool(p, resp) ==
    IF p.maestro = NULL THEN POut(p, "AttributeError", 0, "raise")
    ELSE IF resp.kind # "http" THEN POut(p, resp.kind, 1, "raise")
    ELSE IF ~Ok(resp.status) THEN POut(p, "HTTPError", 1, "raise")
    ELSE IF ~resp.body.json THEN POut(p, "JSONDecodeError", 1, "raise")
    ELSE POut([p EXCEPT !.datapool_id = NULL, !.label = NULL,
                        !.default_automation = NULL],
              NULL, 1, "dict")

\* summary: the mapping of the reply is returned, the pool is not written
summary(p, resp) ==
    IF p.maestro = NULL THEN POut(p, "AttributeError", 0, "raise")
    ELSE IF resp.kind # "http" THEN POut(p, resp.kind, 1, "raise")
    ELSE IF ~Ok(resp.status) THEN POut(p, "HTTPError", 1, "raise")
    ELSE IF ~resp.body.json THEN POut(p, "JSONDecodeError", 1, "raise")
    ELSE POut(p, NULL, 1, "dict")

\* summary.get("countPending", 0)
CountPending(mapping) == IF mapping.has THEN mapping.countPending ELSE 0

\* is_empty with the comparison on the wrong side of zero
is_empty_when_pending(p, resp) ==
    LET r == summary(p, resp) IN
    IF r.raised # NULL THEN r
    ELSE [r EXCEPT !.ret = PyBool(CountPending(resp.body) > 0)]

\* is_empty
is_empty(p, resp) ==
    LET r == summary(p, resp) IN
    IF r.raised # NULL THEN r
    ELSE [r EXCEPT !.ret = PyBool(CountPending(resp.body) = 0)]

\* has_next
has_next(p, resp) ==
    LET r == is_empty(p, resp) IN
    IF r.raised # NULL THEN r
    ELSE [r EXCEPT !.ret = PyBool(~(r.ret = "True"))]

\* The portal: it keeps the configuration of the one pool and the number of
\* its pending entries, and answers an unauthenticated request with 401.

PortalVersion == <<3, 0, 2>>

PortalCfg(active, auto_retry) ==
    [json |-> TRUE, id |-> "d1", label |-> PoolLabel,
     defaultActivity |-> ActivityLabel, consumptionPolicy |-> FIFO,
     schema |-> NULL, trigger |-> NEVER, autoRetry |-> auto_retry,
     maxAutoRetry |-> 0, itemMaxProcessingTime |-> 0,
     maxErrorsBeforeInactive |-> 0, abortOnError |-> TRUE, active |-> active]

\* the portal stores the configuration a client posts
PortalStore(cfg, data) ==
    [cfg EXCEPT !.defaultActivity = data.defaultAutomation,
                !.consumptionPolicy = data.consumptionPolicy,
                !.schema = data.schema, !.trigger = data.trigger,
                !.autoRetry = data.autoRetry, !.maxAutoRetry = data.maxAutoRetry,
                !.itemMaxProcessingTime = data.itemMaxProcessingTime,
                !.maxErrorsBeforeInactive = data.maxErrorsBeforeInactive,
                !.abortOnError = data.abortOnError, !.active = data.active]

\* the counters of the pool; has = FALSE: the mapping lacks countPending
Counters(n) == [json |-> TRUE, has |-> TRUE, countPending |-> n]
NoCounters == [json |-> TRUE, has |-> FALSE, countPending |-> 0]

\* how a request ends
Nets == {"ok", "500", "Timeout"}

\* the reply to a request carrying the session's token
Answer(net, ok) ==
    IF net = "Timeout" THEN Lost
    ELSE IF net = "500" THEN Reply(500, NoBody)
    ELSE IF sdk.access_token = NULL THEN Reply(401, NoBody)
    ELSE ok

\* the request is served: it arrived, with a token
Served(net) == net = "ok" /\ sdk.access_token # NULL

\* the entry the portal answers with
PortalEntry == CHOOSE b \in Bodies : b.id = "e1" /\ b.state = PROCESSING

\* the record of a completed call
PDone(op, gate, out, data, resp) ==
    [op |-> op, gate |-> gate, raised |-> out.raised, sent |-> out.sent,
     ret |-> out.ret, data |-> IF out.sent = 0 THEN NoData ELSE data,
     kind |-> IF out.sent = 0 THEN "none" ELSE resp.kind,
     status |-> IF out.sent = 0 THEN 0 ELSE resp.status,
     body |-> IF out.sent = 0 THEN NoBody ELSE resp.body]

\* login against this portal: the probe answers the portal's version and the
\* login request answers a token
PoolLogin ==
    LET d == _define_implementation([sdk EXCEPT !.access_token = NULL], PortalVersion)
    IN /\ sdk' = [d.sdk EXCEPT !.access_token = "tok"]
       /\ last' = Called("login", "pass", NULL, 2, "None")
       /\ UNCHANGED <<pool, entry, srv, flight, held, hist>>

\* create_datapool: the gates, pool.maestro = self, the request
CreateDatapool ==
    \E net \in Nets :
        LET g1 == since_version(GatedOps.create_datapool, sdk)
            g2 == ensure_access_token(FALSE, sdk)
            p1 == [pool EXCEPT !.maestro = "sdk"]
            data == to_dict(p1)
            resp == Answer(net, Reply(200, PortalStore(srv.cfg, data)))
            out == IF g1 # "pass" THEN POut(pool, "RuntimeError", 0, "raise")
                   ELSE IF g2 = "no_token" THEN POut(pool, "RuntimeError", 0, "raise")
                   ELSE IF g2 = "offline" THEN POut(pool, NULL, 0, "lambda")
                   ELSE IF resp.kind # "http" THEN POut(p1, resp.kind, 1, "raise")
                   ELSE IF Ok(resp.status) THEN POut(p1, NULL, 1, "self")
                   ELSE POut(p1, "HTTPError", 1, "raise")
        IN /\ pool' = out.pool
           /\ srv' = IF out.sent = 1 /\ Served(net)
                     THEN [srv EXCEPT !.cfg = PortalStore(@, data)] ELSE srv
           /\ sdk' = IF g1 = "pass" /\ g2 = "offline"
                     THEN [sdk EXCEPT !.notified_disconnect = TRUE] ELSE sdk
           /\ last' = PDone("create_datapool", IF g1 # "pass" THEN g1 ELSE g2,
                            out, data, resp)
           /\ UNCHANGED <<entry, flight, held, hist>>

\* get_datapool: the gates, the request, DataPool.from_json
GetDatapool ==
    \E net \in Nets :
        LET g1 == since_version(GatedOps.get_datapool, sdk)
            g2 == ensure_access_token(FALSE, sdk)
            resp == Answer(net, Reply(200, srv.cfg))
            out == IF g1 # "pass" THEN POut(pool, "RuntimeError", 0, "raise")
                   ELSE IF g2 = "no_token" THEN POut(pool, "RuntimeError", 0, "raise")
                   ELSE IF g2 = "offline" THEN POut(pool, NULL, 0, "lambda")
                   ELSE IF resp.kind # "http" THEN POut(pool, resp.kind, 1, "raise")
                   ELSE IF Ok(resp.status)
                   THEN POut(from_json(resp.body, "sdk"), NULL, 1, "new")
                   ELSE POut(pool, "HTTPError", 1, "raise")
        IN /\ pool' = out.pool
           /\ sdk' = IF g1 = "pass" /\ g2 = "offline"
                     THEN [sdk EXCEPT !.notified_disconnect = TRUE] ELSE sdk
           /\ last' = PDone("get_datapool", IF g1 # "pass" THEN g1 ELSE g2,
                            out, NoData, resp)
           /\ UNCHANGED <<entry, srv, flight, held, hist>>

Activate ==
    \E net \in Nets :
        LET data == activate_data(pool)
            cfg == IF Served(net) THEN PortalStore(srv.cfg, data) ELSE srv.cfg
            resp == Answer(net, Reply(200, cfg))
            out == activate(pool, resp)
        IN /\ pool' = out.pool
           /\ srv' = IF out.sent = 1 THEN [srv EXCEPT !.cfg = cfg] ELSE srv
           /\ last' = PDone("activate", "pass", out, data, resp)
           /\ UNCHANGED <<sdk, entry, flight, held, hist>>

Deactivate ==
    \E net \in Nets :
        LET data == deactivate_data(pool)
            cfg == IF Served(net) THEN PortalStore(srv.cfg, data) ELSE srv.cfg
            resp == Answer(net, Reply(200, cfg))
            out == deactivate(pool, resp)
        IN /\ pool' = out.pool
           /\ srv' = IF out.sent = 1 THEN [srv EXCEPT !.cfg = cfg] ELSE srv
           /\ last' = PDone("deactivate", "pass", out, data, resp)
           /\ UNCHANGED <<sdk, entry, flight, held, hist>>

IsActive ==
    \E net \in Nets :
        LET resp == Answer(net, Reply(200, srv.cfg))
            out == is_active(pool, resp)
        IN /\ pool' = out.pool
           /\ last' = PDone("is_active", "pass", out, NoData, resp)
           /\ UNCHANGED <<sdk, entry, srv, flight, held, hist>>

\* the counters the portal answers: those of the pool, or a mapping
\* without countPending
CounterReplies == {Counters(srv.pending), NoCounters}

Summary ==
    \E net \in Nets, c \in CounterReplies :
        LET resp == Answer(net, Reply(200, c))
            out == summary(pool, resp)
        IN /\ pool' = out.pool
           /\ last' = PDone("summary", "pass", out, NoData, resp)
           /\ UNCHANGED <<sdk, entry, srv, flight, held, hist>>

IsEmpty ==
    \E net \in Nets, c \in CounterReplies :
        LET resp == Answer(net, Reply(200, c))
            out == is_empty(pool, resp)
        IN /\ pool' = out.pool
           /\ last' = PDone("is_empty", "pass", out, NoData, resp)
           /\ UNCHANGED <<sdk, entry, srv, flight, held, hist>>

HasNext ==
    \E net \in Nets, c \in CounterReplies :
        LET resp == Answer(net, Reply(200, c))
            out == has_next(pool, resp)
        IN /\ pool' = out.pool
           /\ last' = PDone("has_next", "pass", out, NoData, resp)
           /\ UNCHANGED <<sdk, entry, srv, flight, held, hist>>

\* the operations on entries, against the same portal
EntryOps ==
    {"create_entry", "get_entry", "next", "save", "report_done", "report_error"}

EntryCall ==
    \E op \in EntryOps, net \in Nets :
        LET resp == Answer(net, Reply(200, PortalEntry))
            out == CASE op = "create_entry" -> create_entry(pool, entry, resp)
                     [] op = "get_entry" -> get_entry(pool, entry, resp)
                     [] op = "next" -> next(pool, entry, TInt(123), resp)
                     [] op = "save" -> save(entry, resp)
                     [] op = "report_done" -> report_done(entry, resp)
                     [] op = "report_error" -> report_error(entry, resp)
        IN /\ entry' = out.entry
           /\ last' = PDone(op, "pass", out, NoData, resp)
           /\ UNCHANGED <<sdk, pool, srv, flight, held, hist>>

\* someone else switches the pool on or off at the portal; last then no
\* longer names a call of this client
PortalToggle ==
    /\ srv' = [srv EXCEPT !.cfg.active = ~@]
    /\ last' = Called("elsewhere", "pass", NULL, 0, "None")
    /\ UNCHANGED <<sdk, pool, entry, flight, held, hist>>

\* entries are pushed to and pulled from the pool by others
PortalPending ==
    \E n \in 0..MaxPending :
        /\ n # srv.pending
        /\ srv' = [srv EXCEPT !.pending = n]
        /\ last' = Called("elsewhere", "pass", NULL, 0, "None")
        /\ UNCHANGED <<sdk, pool, entry, flight, held, hist>>

\* a session that has not logged in, a pool built by its constructor (with
\* or without the session), and a portal that knows the pool
InitPool ==
    /\ \E rnc \in BOOLEAN :
          sdk = [server |-> "srv", login |-> "org", key |-> "key",
                 access_token |-> NULL, version |-> NoVersion,
                 RAISE_NOT_CONNECTED |-> rnc,
                 MOCK_OBJECT_WHEN_DISCONNECTED |-> FALSE,
                 notified_disconnect |-> FALSE]
    /\ \E m \in {NULL, "sdk"} : pool = NewDataPool(PoolLabel, ActivityLabel, TRUE, m)
    /\ entry = NewDataPoolEntry(0, [k |-> "v"])
    /\ \E a \in BOOLEAN, r \in BOOLEAN :
          srv = [cfg |-> PortalCfg(a, r), pending |-> 0]
    /\ last = Called("init", "pass", NULL, 0, "None")
    /\ flight = <<>>
    /\ held = <<>>
    /\ hist = <<>>

NextPool ==
    \/ PoolLogin
    \/ Logoff
    \/ CreateDatapool
    \/ GetDatapool
    \/ Activate
    \/ Deactivate
    \/ IsActive
    \/ Summary
    \/ IsEmpty
    \/ HasNext
    \/ PortalToggle
    \/ PortalPending

SpecPool == InitPool /\ [][NextPool]_vars

\* the network operations of a pool and of its entries, with the session
\* logged in or not
NextAuth ==
    \/ PoolLogin
    \/ Logoff
    \/ Activate
    \/ Deactivate
    \/ IsActive
    \/ Summary
    \/ EntryCall

SpecAuth == InitPool /\ [][NextAuth]_vars

-----------------------------------------------------------------------------
(* The transition table of the specification, section 4.2 *)

TableSuccessors(s) ==
    CASE s = PENDING -> {PROCESSING}
      [] s = PROCESSING -> {TIMEOUT, DONE, ERROR}
      [] s = TIMEOUT -> {DONE, ERROR}
      [] s = DONE -> {}
      [] s = ERROR -> {}

\* every field update_from_json sets equals the reply's
EntryEqualsBody(e, b) ==
    /\ e.entry_id = b.id
    /\ e.datapool_label = b.dataPoolLabel
    /\ e.state = b.state
    /\ e.values = b.values
    /\ e.task_id = b.taskId
    /\ e.priority = b.priority
    /\ e.parent = b.parent
    /\ e.child = b.child
    /\ e.date_register = b.dateRegister
    /\ e.date_processing = b.dateProcessing
    /\ e.date_finished = b.dateFinished

\* the reply is a success reply carrying an entry
Accepted(l) == l.kind = "http" /\ Ok(l.status) /\ l.body.json

-----------------------------------------------------------------------------
(* Claims *)

\* C1: on an entry whose state is PENDING, PROCESSING or TIMEOUT, assigning
\* a state that the transition table does not list as a successor raises
\* ValueError and leaves the entry as it was; assigning a listed successor
\* is accepted and becomes the entry's state.
C1_NonTerminalRows ==
    [][(last'.op = "set_state" /\ entry.state \in {PENDING, PROCESSING, TIMEOUT}) =>
          IF last'.arg.s \in TableSuccessors(entry.state)
          THEN /\ last'.raised = NULL
               /\ entry' = [entry EXCEPT !.state = last'.arg.s]
          ELSE /\ last'.raised = "ValueError"
               /\ entry' = entry]_vars

\* a TIMEOUT entry has just refused to go back to PROCESSING
C1_Witness ==
    /\ last.op = "set_state"
    /\ last.arg = TStr(PROCESSING)
    /\ last.raised = "ValueError"
    /\ entry.state = TIMEOUT

\* C2: once the entry's state is DONE or ERROR, every assignment to state
\* (direct, or by report_done / report_error) raises ValueError and the
\* state stays what it was.
C2_TerminalStates ==
    [][(/\ entry.state \in {DONE, ERROR}
        /\ last'.op \in {"set_state", "report_done", "report_error"}) =>
          /\ last'.raised = "ValueError"
          /\ entry'.state = entry.state]_vars

\* C5: next() on a 204 reply returns None and raises nothing; on a success
\* reply carrying an entry it returns a new entry that has every field of
\* the reply, except that task_id is the caller's task id as a string
\* (123 gives "123", "42" stays "42"), and whose maestro is the pool's.
C5_NextOutcomes ==
    (last.op = "next" /\ last.kind = "http") =>
        /\ last.status = 204 => (last.ret = "None" /\ last.raised = NULL)
        /\ (last.status # 204 /\ Accepted(last)) =>
              /\ last.ret = "new"
              /\ last.raised = NULL
              /\ EntryEqualsBody([entry EXCEPT !.task_id = last.body.taskId], last.body)
              /\ entry.task_id.t = "str"
              /\ last.arg = TInt(123) => entry.task_id = TStr("123")
              /\ last.arg = TStr("42") => entry.task_id = TStr("42")
              /\ entry.maestro = pool.maestro
              /\ entry.maestro # NULL

\* next(123) has returned an entry built from a reply whose taskId differs
C5_Witness ==
    /\ last.op = "next"
    /\ last.ret = "new"
    /\ last.arg = TInt(123)
    /\ last.body.taskId = TStr("42")
    /\ entry.state = PROCESSING

C7_SaveReplacesFields ==
    [][(/\ last'.op = "save"
        /\ entry.entry_id # NULL
        /\ entry.maestro # NULL
        /\ Accepted(last')) =>
          /\ last'.raised = NULL
          /\ EntryEqualsBody(entry', last'.body)]_vars

\* C8: report_done() / report_error() on an entry whose state does not
\* list DONE / ERROR as a successor in the transition table: ValueError is
\* raised, the entry is left as it was and no request is sent.
C8_ReportChecksFirst ==
    [][\A op \in {"report_done", "report_error"} :
          (/\ last'.op = op
           /\ entry.state \in StateEnum
           /\ entry.entry_id # NULL
           /\ entry.maestro # NULL
           /\ (IF op = "report_done" THEN DONE ELSE ERROR)
                 \notin TableSuccessors(entry.state)) =>
             /\ last'.raised = "ValueError"
             /\ entry' = entry
             /\ last'.sent = 0]_vars

\* C9: create_entry(e) for every e, when the server accepts and answers
\* with the new entry (PENDING, the pool's label, the priority and values
\* sent): only priority and values were sent, the object passed is the one
\* returned, and it has the reply's id, the pool's label, state PENDING and
\* the priority and values it had.
C9_CreateEntryInPlace ==
    [][(/\ last'.op = "create_entry"
        /\ (entry.entry_id = NULL => entry.state = NULL)
        /\ Accepted(last')
        /\ last'.body.state = PENDING
        /\ last'.body.dataPoolLabel = pool.label
        /\ last'.body.priority = entry.priority
        /\ last'.body.values = entry.values) =>
          /\ last'.keys = {"priority", "values"}
          /\ last'.raised = NULL
          /\ last'.ret = "self"
          /\ entry'.entry_id = last'.body.id
          /\ entry'.datapool_label = pool.label
          /\ entry'.state = PENDING
          /\ entry'.priority = entry.priority
          /\ entry'.values = entry.values]_vars

\* what was pushed as the entry of this id
PushedAs(id) == hist.pushed[CHOOSE i \in DOMAIN hist.pushed : ServerId(i) = id]

\* C3: against the server that keeps the entries: an entry just created is
\* PENDING with the priority and values it was built with; the entry a
\* worker got from next() has the pushed values and priority and the
\* worker's task id as a string ("42" for the worker of task "42"), and is
\* PROCESSING until the worker reports it; report_done() / report_error()
\* on it never raise and leave it DONE / ERROR; and a get_entry of an id
\* reported done returns an entry in state DONE.
C3_EntryLifecycle ==
    /\ last.op = "create_entry" =>
          /\ last.raised = NULL
          /\ entry.entry_id = last.id
          /\ entry.state = PENDING
          /\ entry.priority = PushedAs(last.id).priority
          /\ entry.values = PushedAs(last.id).values
    /\ \A w \in Workers :
          held[w].entry_id # NULL =>
             /\ held[w].values = PushedAs(held[w].entry_id).values
             /\ held[w].priority = PushedAs(held[w].entry_id).priority
             /\ held[w].task_id.t = "str"
             /\ w = 1 => held[w].task_id = TStr("42")
             /\ w = 2 => held[w].task_id = TStr("123")
             /\ \A st \in {DONE, ERROR} :
                   held[w].state = st <=>
                      [id |-> held[w].entry_id, state |-> st] \in hist.reported
             /\ held[w].state \in {PROCESSING, DONE, ERROR}
    /\ \A r \in hist.raised : r.op # "report"
    /\ (last.op = "get_entry" /\ [id |-> last.id, state |-> DONE] \in hist.reported) =>
          /\ last.raised = NULL
          /\ entry.entry_id = last.id
          /\ entry.state = DONE

\* the entry pushed with priority 5 and {k: v}, claimed under task "42" and
\* reported done, has been fetched again
C3_Witness ==
    /\ last.op = "get_entry"
    /\ [id |-> last.id, state |-> DONE] \in hist.reported
    /\ entry.state = DONE
    /\ entry.priority = 5
    /\ entry.values = [k |-> "v"]
    /\ entry.task_id = TStr("42")
    /\ held[1] = entry

\* C4: with the workers' pulls overlapping, no entry id is returned by
\* next() to two different workers, every entry returned to a worker is one
\* the server claimed for that worker's pull while it was PENDING, and no
\* next() raises: it returns one entry or None.
C4_ClaimMutualExclusion ==
    /\ \A r1, r2 \in hist.returns : r1.id = r2.id => r1.w = r2.w
    /\ \A r \in hist.returns :
          [w |-> r.w, id |-> r.id, was |-> PENDING] \in hist.picked
    /\ \A r \in hist.raised : r.op # "next"

\* two workers whose pulls were in flight together have each got an entry
C4_Witness ==
    /\ hist.overlap
    /\ \E r1, r2 \in hist.returns : r1.w # r2.w
    /\ \A w \in {1, 2} : held[w].state = PROCESSING

\* major.minor.patch ordering
SemverLess(a, b) ==
    \/ a[1] < b[1]
    \/ a[1] = b[1] /\ a[2] < b[2]
    \/ a[1] = b[1] /\ a[2] = b[2] /\ a[3] < b[3]

\* the requirement the specification states for each gated operation
Requires(op) ==
    IF op \in {"create_datapool", "get_datapool"} THEN <<3, 0, 2>> ELSE <<2, 0, 0>>

GatedNames ==
    {"interrupt_task", "error", "get_credential", "create_credential",
     "create_datapool", "get_datapool"}

\* C10: a call of a version-gated operation with a negotiated version: if
\* the version is lower than the operation requires, RuntimeError is
\* raised and no request is issued; if it is equal or higher the version
\* gate lets the call through, so that with an access token the request is
\* issued.
C10_VersionGate ==
    (last.op \in GatedNames /\ sdk.version # NoVersion) =>
        IF SemverLess(sdk.version, Requires(last.op))
        THEN /\ last.gate = "version_unsupported"
             /\ last.raised = "RuntimeError"
             /\ last.sent = 0
        ELSE /\ last.gate \notin {"version_unsupported", "version_not_available"}
             /\ sdk.access_token # NULL => (last.gate = "pass" /\ last.sent > 0)

\* create_datapool was refused at version 3.0.1, one patch below 3.0.2
C10_Witness ==
    /\ last.op = "create_datapool"
    /\ sdk.version = <<3, 0, 1>>
    /\ sdk.access_token # NULL
    /\ last.raised = "RuntimeError"
    /\ last.sent = 0

\* the rejections of the version gate
VersionRejections == {"version_unsupported", "version_not_available"}

\* a login that got as far as the probe
ProbeFailed(l, h) == l.op = "login" /\ l.sent >= 1 /\ h.probe = NoVersion

\* C11: when the version probe of a login fails, a fixed fallback version
\* older than 2.0.0 is recorded, and every later call of an operation gated
\* at 2.0.0 or higher fails with the version-unsupported error.
C11_ProbeFailureLegacy ==
    [][/\ ProbeFailed(last', hist') =>
            (sdk'.version # NoVersion /\ SemverLess(sdk'.version, <<2, 0, 0>>))
       /\ (last'.op \in GatedNames /\ hist.probed /\ hist.probe = NoVersion) =>
            (last'.gate = "version_unsupported" /\ last'.raised = "RuntimeError")]_vars

\* C12: when the probe of a login raises: with RAISE_NOT_CONNECTED login
\* raises that error and no token is obtained; without it login goes on,
\* version 999.0.0 is recorded, and until the next login the version gate
\* rejects no gated operation.
C12_ProbeRaises ==
    [][/\ ProbeFailed(last', hist') =>
            IF sdk.RAISE_NOT_CONNECTED
            THEN /\ last'.raised = "ProbeError"
                 /\ last'.ret = "raise"
                 /\ last'.sent = 1
                 /\ sdk'.access_token = NULL
            ELSE /\ last'.raised # "ProbeError"
                 /\ last'.sent = 2
                 /\ sdk'.version = AssumeLatest
       /\ (/\ last'.op \in GatedNames
           /\ hist.probed /\ hist.probe = NoVersion
           /\ ~sdk.RAISE_NOT_CONNECTED) =>
            last'.gate \notin VersionRejections]_vars

\* create_datapool went through after a login whose probe failed
C12_Witness ==
    /\ hist.probed /\ hist.probe = NoVersion
    /\ ~sdk.RAISE_NOT_CONNECTED
    /\ sdk.version = AssumeLatest
    /\ last.op = "create_datapool"
    /\ last.gate = "pass"
    /\ last.sent = 1

\* C13: a call of a version-gated operation while the version is None:
\* with RAISE_NOT_CONNECTED it raises RuntimeError with the "version not
\* available" message, not the version-unsupported one, before any request;
\* without it the version gate lets the call through.
C13_NoVersionYet ==
    [][(last'.op \in GatedNames /\ sdk.version = NoVersion) =>
          IF sdk.RAISE_NOT_CONNECTED
          THEN /\ last'.gate = "version_not_available"
               /\ last'.gate # "version_unsupported"
               /\ last'.raised = "RuntimeError"
               /\ last'.sent = 0
          ELSE last'.gate \notin VersionRejections]_vars

\* get_credential was refused on a session that never logged in
C13_Witness ==
    /\ ~hist.probed
    /\ sdk.version = NoVersion
    /\ sdk.RAISE_NOT_CONNECTED
    /\ last.op = "get_credential"
    /\ last.gate = "version_not_available"

\* the operations behind the token gate
TokenGuarded == TokenOps \cup GatedNames \cup {"get_execution"}

\* what an offline call returns in place of a result
Placeholders == {"mock", "lambda", "default"}

\* C14 as stated: while the access token is None a token-guarded operation
\* issues no request; with RAISE_NOT_CONNECTED it raises the not-connected
\* RuntimeError, without it the call returns a placeholder.
C14_TokenGate ==
    [][(last'.op \in TokenGuarded /\ sdk.access_token = NULL) =>
          /\ last'.sent = 0
          /\ IF sdk.RAISE_NOT_CONNECTED
             THEN /\ last'.raised = "RuntimeError"
                  /\ last'.gate \in {"no_token", "version_not_available"}
             ELSE /\ last'.raised = NULL
                  /\ last'.ret \in Placeholders]_vars

\* C14 amended: while the access token is None a token-guarded operation
\* issues no request; unless the version gate in front of it rejects the
\* call for a version that is too old, with RAISE_NOT_CONNECTED it raises
\* the not-connected RuntimeError and without it returns a placeholder.
C14_TokenGateAmended ==
    [][(last'.op \in TokenGuarded /\ sdk.access_token = NULL) =>
          /\ last'.sent = 0
          /\ last'.gate # "version_unsupported" =>
                IF sdk.RAISE_NOT_CONNECTED
                THEN /\ last'.raised = "RuntimeError"
                     /\ last'.gate \in {"no_token", "version_not_available"}
                ELSE /\ last'.raised = NULL
                     /\ last'.ret \in Placeholders
          /\ last'.gate = "version_unsupported" =>
                (last'.raised = "RuntimeError" /\ last'.op \in GatedNames)]_vars

\* get_execution returned its default after a logoff, in offline mode
C14_Witness ==
    /\ hist.token # NULL
    /\ sdk.access_token = NULL
    /\ ~sdk.RAISE_NOT_CONNECTED
    /\ last.op = "get_execution"
    /\ last.ret = "default"
    /\ last.sent = 0

\* C16: after a login that returns normally the access token is the one
\* that login was issued and, when its probe answered, the version is the
\* probe's answer, whatever version was known before; after logoff the
\* access token is None.
C16_SessionLifecycle ==
    [][/\ (last'.op = "login" /\ last'.raised = NULL) =>
            /\ hist'.token \in Tokens
            /\ sdk'.access_token = hist'.token
            /\ hist'.probe # NoVersion => sdk'.version = hist'.probe
       /\ last'.op = "logoff" => sdk'.access_token = NULL]_vars

\* a second login has replaced the version and the token of the first
C16_Witness ==
    /\ last.op = "login"
    /\ last.raised = NULL
    /\ hist.changed
    /\ sdk.version = hist.probe
    /\ sdk.access_token = "tok2"

\* the network operations of DataPool and DataPoolEntry
NetworkOps == {"activate", "deactivate", "is_active", "summary"} \cup EntryOps

\* C15: while the access token of the owning session is None, no network
\* operation of a DataPool or of a DataPoolEntry issues a request.
C15_RequiresSession ==
    [][(last'.op \in NetworkOps /\ sdk.access_token = NULL) => last'.sent = 0]_vars

\* the reply was a success carrying JSON
Fetched(l) == l.raised = NULL /\ l.sent = 1 /\ l.kind = "http" /\ l.body.json

\* C17: is_empty() returns True exactly when countPending of the summary it
\* fetched is 0, and has_next() returns the negation, from one summary that
\* has_next() fetched itself.
C17_IsEmptyHasNext ==
    [][/\ (last'.op = "is_empty" /\ Fetched(last') /\ last'.body.has) =>
            /\ last'.ret \in {"True", "False"}
            /\ last'.ret = "True" <=> last'.body.countPending = 0
       /\ (last'.op = "has_next" /\ Fetched(last') /\ last'.body.has) =>
            /\ last'.ret \in {"True", "False"}
            /\ last'.ret = "True" <=> last'.body.countPending # 0
       /\ (last'.op \in {"is_empty", "has_next"} /\ last'.raised = NULL) =>
            Fetched(last')]_vars

\* has_next() answered True on a summary with one pending entry
C17_Witness ==
    /\ last.op = "has_next"
    /\ last.ret = "True"
    /\ last.body.has
    /\ last.body.countPending = 1
    /\ srv.pending = 1

\* every field of the pool equals the portal's answer
PoolEqualsBody(p, b) ==
    /\ p.datapool_id = b.id
    /\ p.label = b.label
    /\ p.default_automation = b.defaultActivity
    /\ p.consumption_policy = b.consumptionPolicy
    /\ p.schema = b.schema
    /\ p.trigger = b.trigger
    /\ p.auto_retry = b.autoRetry
    /\ p.max_auto_retry = b.maxAutoRetry
    /\ p.item_max_processing_time = b.itemMaxProcessingTime
    /\ p.max_errors_before_inactive = b.maxErrorsBeforeInactive
    /\ p.abort_on_error = b.abortOnError
    /\ p.active = b.active

\* C18: the pool returned by get_datapool carries the portal's value of
\* every field, active included, and the local active changes only in
\* activate(), deactivate() or a read that refreshes the pool.
C18_GetDatapoolCarriesServerValues ==
    [][/\ (last'.op = "get_datapool" /\ last'.ret = "new") =>
            (PoolEqualsBody(pool', last'.body) /\ pool'.active = srv.cfg.active)
       /\ pool'.active # pool.active =>
            last'.op \in {"activate", "deactivate", "is_active", "get_datapool"}]_vars

C20_SummaryFrame ==
    [][last'.op \in {"summary", "is_empty", "has_next"} =>
          /\ pool' = pool
          /\ (last'.op = "summary" /\ last'.raised = NULL) =>
                (Fetched(last') /\ last'.ret = "dict")]_vars

\* summary() has returned the counters to a pool that holds refreshed fields
C20_Witness ==
    /\ last.op = "summary"
    /\ last.ret = "dict"
    /\ last.body.countPending = 1
    /\ pool.datapool_id = "d1"
    /\ pool.active = FALSE

-----------------------------------------------------------------------------
(* Claims on the entry's payloads and on entries without a state *)

\* C21: an entry built from a server payload by update_from_json gives, in
\* json_to_update, the priority, values, pool label, state, task id, parent
\* and child of that payload.
C21_RoundTrip ==
    [][(last'.op = "get_entry" /\ last'.ret = "new") =>
          LET d == json_to_update(entry')
              b == last'.body IN
          /\ d.priority = b.priority
          /\ d.values = b.values
          /\ d.dataPoolLabel = b.dataPoolLabel
          /\ d.state = b.state
          /\ d.taskId = b.taskId
          /\ d.parent = b.parent
          /\ d.child = b.child]_vars

\* get_entry() has built an entry from the payload of a finished entry
\* that carries a task id and a parent
C21_Witness ==
    /\ last.op = "get_entry"
    /\ last.ret = "new"
    /\ last.body.state = DONE
    /\ last.body.taskId = TStr("42")
    /\ last.body.parent = "e1"
    /\ json_to_update(entry).taskId = TStr("42")

\* C22: on an entry without a state the assignment of any state succeeds,
\* and next() and get_entry(), which fill a new entry from the body of the
\* reply, raise no ValueError and return the entry in the state of the body,
\* whichever it is.
C22_UnsetAcceptsAll ==
    [][/\ (last'.op = "set_state" /\ entry.state = NULL) =>
              (last'.raised = NULL /\ TStr(entry'.state) = last'.arg)
       /\ (last'.op \in {"next", "get_entry"}) =>
              /\ last'.raised # "ValueError"
              /\ (/\ last'.kind = "http" /\ Ok(last'.status)
                  /\ last'.status # 204 /\ last'.body.json) =>
                     (last'.ret = "new" /\ entry'.state = last'.body.state)]_vars

\* next() has returned an entry that the body shows in TIMEOUT
C22_Witness ==
    /\ last.op = "next"
    /\ last.ret = "new"
    /\ last.body.state = TIMEOUT
    /\ entry.state = TIMEOUT
    /\ entry.date_processing = "d1"

-----------------------------------------------------------------------------
(* BotMaestroSDK.finish_task: the item counters.  An Optional[int] is TNone *)
(* or TInt(n).                                                             *)

MaxItems == 3

\* the values an item counter argument may take
ItemArgs == {TNone} \cup {TInt(n) : n \in (0 - MaxItems)..MaxItems}

\* (None, None, None)
NoItems == <<TNone, TNone, TNone>>

\* max(0, n)
Max0(n) == IF n < 0 THEN 0 ELSE n

\* the result of _validate_items: the exception raised (NULL: none) and the
\* tuple returned
Validated(raised, items) == [raised |-> raised, items |-> items]

\* _validate_items that returns the filled counters as they are
_validate_items_without_max(total_items, processed_items, failed_items) ==
    LET t1 == IF total_items = TNone /\ processed_items # TNone /\ failed_items # TNone
              THEN TInt(processed_items.i + failed_items.i) ELSE total_items
        f1 == IF t1 # TNone /\ processed_items # TNone /\ failed_items = TNone
              THEN TInt(t1.i - processed_items.i) ELSE failed_items
        p1 == IF t1 # TNone /\ processed_items = TNone /\ f1 # TNone
              THEN TInt(t1.i - f1.i) ELSE processed_items
    IN IF total_items = processed_items /\ processed_items = failed_items
          /\ failed_items = TNone
       THEN Validated(NULL, NoItems)
       ELSE IF t1 = TNone \/ p1 = TNone \/ f1 = TNone
       THEN Validated("ValueError", NoItems)
       ELSE IF t1.i # p1.i + f1.i THEN Validated("ValueError", NoItems)
       ELSE Validated(NULL, <<t1, p1, f1>>)

\* _validate_items that fills no blank: a missing counter is an error
_validate_items_without_fill(total_items, processed_items, failed_items) ==
    IF total_items = processed_items /\ processed_items = failed_items
       /\ failed_items = TNone
    THEN Validated(NULL, NoItems)
    ELSE IF total_items = TNone \/ processed_items = TNone \/ failed_items = TNone
    THEN Validated("ValueError", NoItems)
    ELSE LET t2 == Max0(total_items.i)
             p2 == Max0(processed_items.i)
             f2 == Max0(failed_items.i)
         IN IF t2 # p2 + f2 THEN Validated("ValueError", NoItems)
            ELSE Validated(NULL, <<TInt(t2), TInt(p2), TInt(f2)>>)

\* _validate_items: the three fills in the order of the code, the check for
\* a counter still missing, max(0, .) on each, then the sum check
_validate_items(total_items, processed_items, failed_items) ==
    LET t1 == IF total_items = TNone /\ processed_items # TNone /\ failed_items # TNone
              THEN TInt(processed_items.i + failed_items.i) ELSE total_items
        f1 == IF t1 # TNone /\ processed_items # TNone /\ failed_items = TNone
              THEN TInt(t1.i - processed_items.i) ELSE failed_items
        p1 == IF t1 # TNone /\ processed_items = TNone /\ f1 # TNone
              THEN TInt(t1.i - f1.i) ELSE processed_items
    IN IF total_items = processed_items /\ processed_items = failed_items
          /\ failed_items = TNone
       THEN Validated(NULL, NoItems)
       ELSE IF t1 = TNone \/ p1 = TNone \/ f1 = TNone
       THEN Validated("ValueError", NoItems)
       ELSE LET t2 == Max0(t1.i)
                p2 == Max0(p1.i)
                f2 == Max0(f1.i)
            IN IF t2 # p2 + f2 THEN Validated("ValueError", NoItems)
               ELSE Validated(NULL, <<TInt(t2), TInt(p2), TInt(f2)>>)

\* the result of a call that takes the item counters: args are the counters
\* passed, items the counters returned or sent
ItemsCalled(op, gate, raised, sent, ret, args, items) ==
    [op |-> op, gate |-> gate, raised |-> raised, sent |-> sent, ret |-> ret,
     args |-> args, items |-> items]

\* BotMaestroSDK._validate_items(total_items, processed_items, failed_items)
ValidateItems ==
    LET v == _validate_items(hist[1], hist[2], hist[3]) IN
    /\ last' = ItemsCalled("_validate_items", "pass", v.raised, 0,
                           IF v.raised = NULL THEN "tuple" ELSE "raise",
                           hist, v.items)
    /\ UNCHANGED <<sdk, pool, entry, srv, flight, held, hist>>

\* finish_task: the token gate, the counters, then the request
FinishTask ==
    \E ok \in BOOLEAN :
        LET g == ensure_access_token(FALSE, sdk)
            v == _validate_items(hist[1], hist[2], hist[3])
            a == hist
        IN /\ last' =
                IF g = "no_token"
                THEN ItemsCalled("finish_task", g, "RuntimeError", 0, "raise", a, NoItems)
                ELSE IF g = "offline"
                THEN ItemsCalled("finish_task", g, NULL, 0,
                                 IF sdk.MOCK_OBJECT_WHEN_DISCONNECTED THEN "mock" ELSE "lambda",
                                 a, NoItems)
                ELSE IF v.raised # NULL
                THEN ItemsCalled("finish_task", "pass", v.raised, 0, "raise", a, NoItems)
                ELSE IF ok
                THEN ItemsCalled("finish_task", "pass", NULL, 1, "value", a, v.items)
                ELSE ItemsCalled("finish_task", "pass", "ValueError", 1, "raise", a, v.items)
           /\ sdk' = IF g = "offline"
                     THEN [sdk EXCEPT !.notified_disconnect = TRUE]
                     ELSE sdk
           /\ UNCHANGED <<pool, entry, srv, flight, held, hist>>

\* a session, logged in or not, in either mode, and in hist the counters
\* (total_items, processed_items, failed_items) its caller passes
InitItems ==
    /\ \E token \in {NULL, "tok"}, rnc \in BOOLEAN, mock \in BOOLEAN :
          sdk = [Session EXCEPT !.access_token = token,
                                !.RAISE_NOT_CONNECTED = rnc,
                                !.MOCK_OBJECT_WHEN_DISCONNECTED = mock]
    /\ last = ItemsCalled("init", "pass", NULL, 0, "None", NoItems, NoItems)
    /\ pool = [label |-> PoolLabel, maestro |-> NULL]
    /\ entry = NewDataPoolEntry(0, EmptyDict)
    /\ srv = <<>>
    /\ flight = <<>>
    /\ held = <<>>
    /\ hist \in ItemArgs \X ItemArgs \X ItemArgs

NextItems ==
    \/ ValidateItems
    \/ FinishTask

SpecItems == InitItems /\ [][NextItems]_vars

-----------------------------------------------------------------------------
(* Claims on the item counters *)

\* the counters missing among the three passed
Missing(a) == {i \in 1..3 : a[i] = TNone}

\* the three counters with the one blank filled from the other two
Filled(a) ==
    IF a[1] = TNone THEN <<a[2].i + a[3].i, a[2].i, a[3].i>>
    ELSE IF a[2] = TNone THEN <<a[1].i, a[1].i - a[3].i, a[3].i>>
    ELSE IF a[3] = TNone THEN <<a[1].i, a[2].i, a[1].i - a[2].i>>
    ELSE <<a[1].i, a[2].i, a[3].i>>

\* C23: with the three counters missing _validate_items returns
\* (None, None, None); with exactly two missing it raises ValueError; with
\* exactly one missing, the two supplied not negative and their difference
\* not negative, it returns the supplied two unchanged and the blank filled
\* from them.
C23_MissingItems ==
    last.op = "_validate_items" =>
        LET a == last.args
            n == Cardinality(Missing(a)) IN
        /\ (n = 3) => (last.raised = NULL /\ last.items = NoItems)
        /\ (n = 2) => (last.raised = "ValueError" /\ last.ret = "raise")
        /\ (/\ n = 1
            /\ \A i \in 1..3 : Filled(a)[i] >= 0) =>
               /\ last.raised = NULL
               /\ last.items = <<TInt(Filled(a)[1]), TInt(Filled(a)[2]), TInt(Filled(a)[3])>>
               /\ \A i \in (1..3) \ Missing(a) : last.items[i] = a[i]

\* _validate_items(2, None, 1) has returned (2, 1, 1)
C23_Witness ==
    /\ last.op = "_validate_items"
    /\ last.args = <<TInt(2), TNone, TInt(1)>>
    /\ last.items = <<TInt(2), TInt(1), TInt(1)>>

\* C24: a tuple returned other than (None, None, None) has the three
\* counters not negative and total = processed + failed; negative counters,
\* passed or filled, count as zero in the sum check, and counters that fail
\* it raise ValueError, finish_task then sending no request.
C24_ItemsInvariant ==
    (last.op \in {"_validate_items", "finish_task"} /\ last.gate = "pass") =>
        LET a == last.args
            c == [i \in 1..3 |-> Max0(Filled(a)[i])] IN
        /\ (last.items # NoItems) =>
               /\ \A i \in 1..3 : last.items[i].i >= 0
               /\ last.items[1].i = last.items[2].i + last.items[3].i
        /\ (Cardinality(Missing(a)) <= 1) =>
               IF c[1] = c[2] + c[3]
               THEN /\ last.items = <<TInt(c[1]), TInt(c[2]), TInt(c[3])>>
                    /\ (last.op = "_validate_items" => last.raised = NULL)
                    /\ (last.op = "finish_task" => last.sent = 1)
               ELSE last.raised = "ValueError" /\ last.sent = 0

\* finish_task has sent (0, 0, 0) for the counters (-2, -1, -1)
C24_Witness ==
    /\ last.op = "finish_task"
    /\ last.args = <<TInt(0 - 2), TInt(0 - 1), TInt(0 - 1)>>
    /\ last.items = <<TInt(0), TInt(0), TInt(0)>>
    /\ last.sent = 1
    /\ last.raised = NULL

-----------------------------------------------------------------------------
(* Claims on login *)

\* C25: a login() for which no server, no login or no key is available,
\* neither passed nor configured before, raises ValueError without a
\* request, and leaves the access token and the version as they were.
C25_LoginValidation ==
    [][(/\ last'.op = "login"
        /\ (sdk'.server = NULL \/ sdk'.login = NULL \/ sdk'.key = NULL)) =>
          /\ last'.raised = "ValueError"
          /\ last'.sent = 0
          /\ sdk'.access_token = sdk.access_token
          /\ sdk'.version = sdk.version
          /\ hist' = hist]_vars

\* login() was refused for its missing login name on a session that holds a
\* token and a version
C25_Witness ==
    /\ last.op = "login"
    /\ last.raised = "ValueError"
    /\ last.sent = 0
    /\ sdk.login = NULL
    /\ sdk.access_token = "tok2"
    /\ sdk.version = <<3, 0, 2>>

\* C30: a login() that passes the check of its arguments and fails at the
\* probe or at the credential request leaves the access token null, also
\* when the session held one; after a failure of the credential request the
\* version is the one this login probed.
C30_LoginRevokesFirst ==
    [][(last'.op = "login" /\ last'.raised # NULL /\ last'.sent >= 1) =>
          /\ sdk'.access_token = NULL
          /\ (last'.sent = 1) => (sdk'.version = sdk.version)
          /\ (last'.sent = 2) =>
                sdk'.version = IF hist'.probe # NoVersion THEN hist'.probe
                               ELSE AssumeLatest]_vars

\* a session that held a token was refused by the credential request of a
\* login whose probe answered another version than the one it had
C30_Witness ==
    /\ last.op = "login"
    /\ last.had
    /\ last.raised = "ValueError"
    /\ last.sent = 2
    /\ sdk.access_token = NULL
    /\ hist.changed
    /\ sdk.version = hist.probe

-----------------------------------------------------------------------------
(* Several BotMaestroSDK objects in one process.  sdk.class holds the class *)
(* attributes, sdk.inst[i] the attributes of the i-th object: own is the    *)
(* set of class attributes the object has shadowed by an assignment.        *)

NSessions == 2

Sessions == 1..NSessions

\* obj._notified_disconnect, read: the attribute of the object when it has
\* one, the attribute of the class otherwise
notified_disconnect(s, i) ==
    IF "_notified_disconnect" \in s.inst[i].own
    THEN s.inst[i].notified_disconnect
    ELSE s.class.notified_disconnect

\* the i-th object as its methods see it
Self(s, i) ==
    [access_token |-> s.inst[i].access_token,
     RAISE_NOT_CONNECTED |-> s.class.RAISE_NOT_CONNECTED,
     MOCK_OBJECT_WHEN_DISCONNECTED |-> s.class.MOCK_OBJECT_WHEN_DISCONNECTED,
     notified_disconnect |-> notified_disconnect(s, i)]

\* obj._notified_disconnect = True: an assignment through the object, which
\* gives the object an attribute of its own and leaves the class as it is
set_notified_disconnect(s, i) ==
    [s EXCEPT !.inst[i].own = @ \cup {"_notified_disconnect"},
              !.inst[i].notified_disconnect = TRUE]

\* the result of a call on the i-th object; warned tells whether the call
\* emitted the "Running on Offline mode" warning
CalledOn(i, op, gate, raised, sent, ret, warned) ==
    [on |-> i, op |-> op, gate |-> gate, raised |-> raised, sent |-> sent,
     ret |-> ret, warned |-> warned]

\* an operation behind @ensure_access_token() called on the i-th object
SessionCall(i) ==
    \E op \in {"alert", "get_task"}, ok \in BOOLEAN :
        LET g == ensure_access_token(FALSE, Self(sdk, i))
            warns == g = "offline" /\ ~notified_disconnect(sdk, i)
        IN /\ last' =
                IF g = "no_token"
                THEN CalledOn(i, op, g, "RuntimeError", 0, "raise", FALSE)
                ELSE IF g = "offline"
                THEN CalledOn(i, op, g, NULL, 0,
                              IF sdk.class.MOCK_OBJECT_WHEN_DISCONNECTED
                              THEN "mock" ELSE "lambda", warns)
                ELSE IF ok THEN CalledOn(i, op, "pass", NULL, 1, "value", FALSE)
                ELSE CalledOn(i, op, "pass", "HTTPError", 1, "raise", FALSE)
           /\ sdk' = IF warns THEN set_notified_disconnect(sdk, i) ELSE sdk
           /\ hist' = IF warns THEN [hist EXCEPT !.warnings = @ + 1] ELSE hist
           /\ UNCHANGED <<pool, entry, srv, flight, held>>

\* a login of the i-th object that the portal accepts
SessionLogin(i) ==
    /\ sdk' = [sdk EXCEPT !.inst[i].access_token = "tok"]
    /\ last' = CalledOn(i, "login", "pass", NULL, 2, "None", FALSE)
    /\ UNCHANGED <<pool, entry, srv, flight, held, hist>>

\* logoff of the i-th object
SessionLogoff(i) ==
    /\ sdk' = [sdk EXCEPT !.inst[i].access_token = NULL]
    /\ last' = CalledOn(i, "logoff", "pass", NULL, 0, "None", FALSE)
    /\ UNCHANGED <<pool, entry, srv, flight, held, hist>>

\* the class as it is defined, with the two modes as configured, and the
\* objects as __init__ leaves them; hist counts the offline warnings emitted
InitSessions ==
    /\ \E rnc \in BOOLEAN, mock \in BOOLEAN :
          sdk = [class |-> [notified_disconnect |-> FALSE,
                            RAISE_NOT_CONNECTED |-> rnc,
                            MOCK_OBJECT_WHEN_DISCONNECTED |-> mock],
                 inst |-> [i \in Sessions |->
                              [access_token |-> NULL, own |-> {},
                               notified_disconnect |-> FALSE]]]
    /\ last = CalledOn(1, "init", "pass", NULL, 0, "None", FALSE)
    /\ hist = [warnings |-> 0]
    /\ pool = [label |-> PoolLabel, maestro |-> NULL]
    /\ entry = NewDataPoolEntry(0, EmptyDict)
    /\ srv = <<>>
    /\ flight = <<>>
    /\ held = <<>>

NextSessions ==
    \E i \in Sessions :
        \/ SessionCall(i)
        \/ SessionLogin(i)
        \/ SessionLogoff(i)

SpecSessions == InitSessions /\ [][NextSessions]_vars

\* C26: in offline-tolerant mode the "running offline" warning is emitted at
\* most once in the process: once an object has emitted it, no guarded call
\* on that or another object emits it again.
C26_WarnedOncePerProcess ==
    hist.warnings <= 1

-----------------------------------------------------------------------------
(* DataPoolEntry: item access.  Here the payload may hold, next to k, keys  *)
(* that are also names of attributes; a key mapped to NULL is not in the    *)
(* payload.  A value read is tagged: TStr, TInt, TNone, or a dict.          *)

\* the keys a payload may hold
PayloadKeys == {"k", "priority", "state"}

\* the payloads: each key present with the value "v", or absent
ItemPayloads == [PayloadKeys -> {NULL, "v"}]

\* the names an item access may use: payload keys, attributes, and a name
\* that is neither
ItemNames == {"k", "priority", "state", "entry_id", "values", "missing"}

\* key in self.values
InValues(e, key) == key \in DOMAIN e.values /\ e.values[key] # NULL

\* a string or None, tagged
Str(x) == IF x = NULL THEN TNone ELSE TStr(x)

\* the result of a read: the exception raised (NULL: none) and the value
Got(raised, value) == [raised |-> raised, value |-> value]

\* getattr(self, item)
getattr(e, item) ==
    IF item = "priority" THEN Got(NULL, TInt(e.priority))
    ELSE IF item = "state" THEN Got(NULL, Str(e.state))
    ELSE IF item = "entry_id" THEN Got(NULL, Str(e.entry_id))
    ELSE IF item = "values" THEN Got(NULL, [t |-> "dict", d |-> e.values])
    ELSE Got("AttributeError", TNone)

\* get_value(key, default): self.values.get(key, default)
get_value(e, key, default) ==
    IF InValues(e, key) THEN Str(e.values[key]) ELSE Str(default)

\* __getitem__ that looks for an attribute before it looks into the payload
__getitem__attribute_first(e, item) ==
    IF getattr(e, item).raised = NULL THEN getattr(e, item)
    ELSE IF InValues(e, item) THEN Got(NULL, Str(e.values[item]))
    ELSE getattr(e, item)

\* __getitem__
__getitem__(e, item) ==
    IF InValues(e, item) THEN Got(NULL, Str(e.values[item]))
    ELSE getattr(e, item)

\* __setitem__: a payload key is overwritten in the payload, any other name
\* is assigned as an attribute
__setitem__(e, key, value) ==
    IF InValues(e, key)
    THEN [entry |-> [e EXCEPT !.values[key] = value], raised |-> NULL]
    ELSE IF key = "state" THEN setattr_state(e, value)
    ELSE [entry |-> [e EXCEPT !.entry_id = value], raised |-> NULL]

\* the result of an item access
Read(op, arg, raised, ret) ==
    [op |-> op, arg |-> arg, raised |-> raised, sent |-> 0, ret |-> ret]

\* entry[item]
GetItem ==
    \E item \in ItemNames :
        LET r == __getitem__(entry, item) IN
        /\ last' = Read("__getitem__", item, r.raised, r.value)
        /\ UNCHANGED <<entry, sdk, pool, srv, flight, held, hist>>

\* entry.get_value(key, default)
GetValue ==
    \E key \in ItemNames, default \in {NULL, "dflt"} :
        /\ last' = Read("get_value", key, NULL, get_value(entry, key, default))
        /\ UNCHANGED <<entry, sdk, pool, srv, flight, held, hist>>

\* entry[key] = value
SetItem ==
    \E kv \in ({"k", "priority"} \X {"w"}) \cup ({"state"} \X {PROCESSING, DONE})
              \cup ({"entry_id"} \X {"e1"}) :
        LET r == __setitem__(entry, kv[1], kv[2]) IN
        /\ entry' = r.entry
        /\ last' = Read("__setitem__", kv[1], r.raised, Str(kv[2]))
        /\ UNCHANGED <<sdk, pool, srv, flight, held, hist>>

\* an entry as constructed or as pulled, with any of the payloads
InitRead ==
    /\ \E p \in Priorities, v \in ItemPayloads, s \in {NULL, PENDING, PROCESSING} :
          entry = [NewDataPoolEntry(p, v) EXCEPT !.state = s]
    /\ last = Read("new", "k", NULL, TNone)
    /\ sdk = Session
    /\ pool = [label |-> PoolLabel, maestro |-> NULL]
    /\ srv = <<>>
    /\ flight = <<>>
    /\ held = <<>>
    /\ hist = <<>>

NextRead ==
    \/ GetItem
    \/ GetValue
    \/ SetItem

SpecRead == InitRead /\ [][NextRead]_vars

\* C27: entry[k] returns the payload's value for k, the value get_value(k)
\* returns, whenever k is a key of the payload, also when an attribute is
\* named k; it returns the attribute named k when k is no key of the
\* payload; neither read sends a request or changes the entry.
C27_ItemRead ==
    [][/\ (last'.op \in {"__getitem__", "get_value"}) =>
              (entry' = entry /\ last'.sent = 0)
       /\ (last'.op = "__getitem__") =>
              LET k == last'.arg IN
              /\ InValues(entry, k) =>
                    /\ last'.raised = NULL
                    /\ last'.ret = TStr(entry.values[k])
                    /\ last'.ret = get_value(entry, k, NULL)
              /\ (~InValues(entry, k) /\ k = "priority") =>
                    (last'.raised = NULL /\ last'.ret = TInt(entry.priority))
              /\ (~InValues(entry, k) /\ k = "state") =>
                    (last'.raised = NULL /\ last'.ret = Str(entry.state))
              /\ (~InValues(entry, k) /\ k = "entry_id") =>
                    (last'.raised = NULL /\ last'.ret = Str(entry.entry_id))]_vars

\* entry["priority"] has returned the payload's "w" on an entry of priority 5
C27_Witness ==
    /\ last.op = "__getitem__"
    /\ last.arg = "priority"
    /\ last.ret = TStr("w")
    /\ entry.values["priority"] = "w"
    /\ entry.priority = 5

-----------------------------------------------------------------------------
(* report_done / report_error on a claimed entry, the update failing or not *)

\* how the update request ends: stored and answered, refused, or lost
ReportNets == {"ok", "500", "Timeout"}

\* the last report: net is how its request ended
RDone(op, net, out) ==
    [op |-> op, net |-> net, raised |-> out.raised, sent |-> out.sent,
     ret |-> out.ret]

\* report_done() / report_error() on the entry; the server stores the update
\* only when the request reaches it and is accepted
ReportEntry ==
    \E st \in {DONE, ERROR}, net \in ReportNets :
        LET sent == _report(entry, st, Lost)
            store == IF sent.sent = 1 /\ net = "ok"
                     THEN ServerSave(srv, 1, sent.data) ELSE srv
            resp == IF net = "ok" THEN Reply(200, ServerBody(1, store[1]))
                    ELSE IF net = "500" THEN Reply(500, NoBody)
                    ELSE Lost
            out == _report(entry, st, resp)
        IN /\ srv' = store
           /\ entry' = out.entry
           /\ last' = RDone(IF st = DONE THEN "report_done" ELSE "report_error",
                            IF out.sent = 0 THEN "none" ELSE net, out)
           /\ UNCHANGED <<sdk, pool, flight, held, hist>>

\* the server holds one entry that a worker has claimed (PROCESSING, or
\* TIMEOUT since); the worker's object is the one next() returned, or a copy
\* of it without its Session
InitReport ==
    /\ sdk = Session
    /\ pool = [label |-> PoolLabel, maestro |-> "sdk"]
    /\ \E in \in PushInputs, st \in {PROCESSING, TIMEOUT}, m \in {NULL, "sdk"},
          t \in CallerTaskIds :
          /\ srv = <<[state |-> st, values |-> in.values,
                      priority |-> in.priority, taskId |-> PyStr(t)]>>
          /\ entry = [next(pool, Unclaimed, t,
                           Reply(200, ServerBody(1, srv[1]))).entry
                        EXCEPT !.maestro = m]
    /\ last = RDone("next", "ok", Outcome(entry, NULL, 1, NoData, "new"))
    /\ flight = <<>>
    /\ held = <<>>
    /\ hist = <<>>

\* the worker reads the entry again by its id
RefreshEntry ==
    LET out == get_entry(pool, entry, Reply(200, ServerBody(1, srv[1]))) IN
    /\ entry' = out.entry
    /\ last' = RDone("get_entry", "ok", out)
    /\ UNCHANGED <<sdk, pool, srv, flight, held, hist>>

\* the server gives up waiting for the worker: PROCESSING becomes TIMEOUT
ServerExpire ==
    /\ srv[1].state = PROCESSING
    /\ srv' = [srv EXCEPT ![1].state = TIMEOUT]
    /\ last' = RDone("elsewhere", "none", Outcome(entry, NULL, 0, NoData, "None"))
    /\ UNCHANGED <<sdk, pool, entry, flight, held, hist>>

NextReport ==
    \/ ReportEntry
    \/ RefreshEntry
    \/ ServerExpire

SpecReport == InitReport /\ [][NextReport]_vars

\* C28: report_done() / report_error() assign the state before the request:
\* when the save that follows fails (a failure status, a timeout, or an
\* entry without a Session) the error reaches the caller, the entry stays
\* DONE / ERROR with nothing else changed, and the server keeps the state
\* it had.
C28_ReportNotAtomic ==
    [][\A op \in {"report_done", "report_error"} :
          LET st == IF op = "report_done" THEN DONE ELSE ERROR IN
          (last'.op = op /\ last'.raised # "ValueError") =>
             /\ (last'.net # "ok") =>
                   /\ last'.raised \in {"HTTPError", "Timeout", "AttributeError"}
                   /\ last'.ret = "raise"
                   /\ entry' = [entry EXCEPT !.state = st]
                   /\ srv' = srv
             /\ (last'.net = "500") => last'.raised = "HTTPError"
             /\ (last'.net = "Timeout") => last'.raised = "Timeout"
             /\ (entry.maestro = NULL) =>
                   (last'.raised = "AttributeError" /\ last'.sent = 0)]_vars

\* report_done() was refused by the server: the entry is DONE here and
\* PROCESSING there
C28_Witness ==
    /\ last.op = "report_done"
    /\ last.raised = "HTTPError"
    /\ entry.state = DONE
    /\ srv[1].state = PROCESSING

-----------------------------------------------------------------------------
(* Workers that ask has_next() before they pull, against the server that   *)
(* keeps the entries                                                       *)

\* the summary the server answers: the number of its PENDING entries
ServerSummary(store) ==
    Counters(Cardinality({i \in DOMAIN store : store[i].state = PENDING}))

\* has_next() of a worker that has no call under way: one request, answered
\* at once
WorkerHasNext(w) ==
    /\ flight[w].kind = "none"
    /\ LET out == has_next(pool, Reply(200, ServerSummary(srv))) IN
       last' = [op |-> "has_next", w |-> w, raised |-> out.raised,
                sent |-> out.sent, ret |-> out.ret]
    /\ UNCHANGED <<sdk, pool, entry, srv, flight, held, hist>>

NextRace ==
    \/ Push
    \/ \E w \in Workers : WorkerHasNext(w)
    \/ \E w \in Workers : PullSend(w)
    \/ \E w \in Workers : PullRecv(w)

SpecRace == InitServer /\ [][NextRace]_vars

\* C29: has_next() reserves nothing: the next() a worker calls after its
\* has_next() returned True returns None, without an error and without an
\* entry, when the server answers 204 because another worker has claimed
\* the last pending entry in between, and returns the entry claimed for it
\* otherwise.
C29_NoReservation ==
    [][\A w \in Workers :
          (/\ last.op = "has_next" /\ last.w = w /\ last.ret = "True"
           /\ flight[w].kind # "none" /\ flight'[w].kind = "none") =>
             /\ hist'.raised = hist.raised
             /\ IF flight[w].status = 204
                THEN held'[w] = held[w] /\ hist'.returns = hist.returns
                ELSE /\ held'[w].entry_id = flight[w].body.id
                     /\ [w |-> w, id |-> held'[w].entry_id] \in hist'.returns]_vars

\* worker 1 was told True, worker 2 then claimed the only entry, and the
\* pull of worker 1 that followed is answered 204
C29_Witness ==
    /\ last.op = "has_next"
    /\ last.w = 1
    /\ last.ret = "True"
    /\ Len(srv) = 1
    /\ [w |-> 2, id |-> ServerId(1), was |-> PENDING] \in hist.picked
    /\ flight[1].kind = "http"
    /\ flight[1].status = 204

====
